---- MODULE Spec2Model ----
(***************************************************************************)
(* The discretisation engine of PyBaMM (pybamm/discretisations/            *)
(* discretisation.py), its spatial methods and the model container, as a   *)
(* state machine.  Symbols live in a heap of nodes (an address is an index *)
(* into the heap), so that object identity, copies and attribute           *)
(* assignments of the Python code are visible.                             *)
(***************************************************************************)
EXTENDS Integers, Sequences, FiniteSets, TLC

VARIABLES
    heap,             \* the symbol objects
    mesh,             \* Discretisation._mesh: domain -> submeshes
    spatial_methods,  \* Discretisation._spatial_methods: domain -> method
    y_slices,         \* Discretisation._y_slices: id -> slice
    bcs,              \* Discretisation._bcs: id -> side -> (expression, type)
    models,           \* the model objects; models[1] is the model given
    given,            \* the model as it was when process_model was called
    inplace,          \* the inplace argument of process_model
    model_disc,       \* the object model_disc names, NoAddr before it is set
    pc,               \* the position of process_model
    err,              \* the exception process_model raised, "" if none
    prompted,         \* an interactive prompt was opened
    log,              \* the stages process_model has completed
    calls,            \* the process_model calls made on the engine
    known_evals,      \* the known_evals dictionary the last evaluation returned
    evaluated         \* the evaluations made: inputs, starting cache and result

vars == <<heap, mesh, spatial_methods, y_slices, bcs, models, given, inplace,
          model_disc, pc, err, prompted, log, calls, known_evals, evaluated>>

\* what the solvers' evaluations write
evaluations == <<known_evals, evaluated>>

(***************************************************************************)
(* Bounds of the model                                                     *)
(***************************************************************************)
\* largest number of points of one submesh
MaxPts == 3
\* largest number of submeshes (secondary dimension) of one domain
MaxSub == 2

(***************************************************************************)
(* Small helpers                                                           *)
(***************************************************************************)
Range(s) == {s[i] : i \in DOMAIN s}

RECURSIVE SumSeq(_)
SumSeq(s) == IF s = <<>> THEN 0 ELSE Head(s) + SumSeq(Tail(s))

\* dict[k] = v on a Python dict held as a function
Put(f, k, v) == [x \in (DOMAIN f) \cup {k} |-> IF x = k THEN v ELSE f[x]]

EmptyDict == [x \in {} |-> 0]

NoAddr == 0

(***************************************************************************)
(* Expression nodes.  a, b hold the numeric payload of a node: the value   *)
(* of a Scalar, the length of an Array or Vector (b = 1 when all its       *)
(* entries are one), rows and columns of a Matrix, start and stop of the   *)
(* y_slice of a StateVector, the size of a NumpyBroadcast.                 *)
(***************************************************************************)
Node(kind, name, domain, children, a, b, side) ==
    [kind |-> kind, name |-> name, domain |-> domain, children |-> children,
     parent |-> NoAddr, a |-> a, b |-> b, side |-> side]

BinaryKinds ==
    {"Addition", "Subtraction", "Multiplication", "MatrixMultiplication", "Division",
     "Power"}
IntegralKinds == {"Integral", "IndefiniteIntegral"}
BroadcastKinds == {"Broadcast", "NumpyBroadcast"}
BoundaryKinds == {"BoundaryValue", "BoundaryFlux"}
SpatialOperatorKinds ==
    {"Gradient", "Divergence", "NodeToEdge"} \cup IntegralKinds \cup BroadcastKinds
        \cup BoundaryKinds
UnaryKinds == {"Negate", "AbsoluteValue", "Function", "Index"} \cup SpatialOperatorKinds
ConcatenationKinds == {"Concatenation", "NumpyConcatenation"}
ArrayKinds == {"Array", "Vector", "Matrix"}

IsBinaryOperator(n) == n.kind \in BinaryKinds
IsUnaryOperator(n) == n.kind \in UnaryKinds
IsConcatenation(n) == n.kind \in ConcatenationKinds

(***************************************************************************)
(* Symbol: identity, construction and copies                               *)
(***************************************************************************)
\* Symbol.id: the structural identity of a node (class, name, payload,
\* children's ids, domain)
RECURSIVE Id(_, _)
Id(h, x) ==
    <<h[x].kind, h[x].name, h[x].domain, h[x].a, h[x].b, h[x].side,
      [i \in DOMAIN h[x].children |-> Id(h, h[x].children[i])]>>

\* copy.copy(child): a new node object with the attributes of the old one
\* (the children list is shared with the original)
ShallowCopy(h, x) == Append(h, h[x])

RECURSIVE CopyChildren(_, _, _)
\* Symbol.__init__: "copy child before adding": each child is copied and the
\* copy's parent is the new node; returns the heap and the copies' addresses
CopyChildren(h, kids, parent) ==
    IF kids = <<>> THEN [h |-> h, rs |-> <<>>]
    ELSE LET h1 == ShallowCopy(h, Head(kids))
             c == Len(h1)
             h2 == [h1 EXCEPT ![c].parent = parent]
             rest == CopyChildren(h2, Tail(kids), parent)
         IN [h |-> rest.h, rs |-> <<c>> \o rest.rs]

\* Symbol(name, children, domain): a fresh node owning copies of its
\* children; the result of a call that returned
Constructed(cc, x) ==
    [h |-> [cc.h EXCEPT ![x].children = cc.rs], r |-> x, err |-> "", io |-> FALSE]

New(h, n, kids) == Constructed(CopyChildren(Append(h, n), kids, Len(h) + 1), Len(h) + 1)

\* the nodes of the tree rooted at x (pre_order)
RECURSIVE Nodes(_, _)
Nodes(h, x) ==
    {x} \cup UNION {Nodes(h, h[x].children[i]) : i \in DOMAIN h[x].children}

(***************************************************************************)
(* Discretisation.set_variable_slices                                      *)
(***************************************************************************)
RECURSIVE UnpackVariablesLastFirst(_, _)
\* the unpacked variables in the reverse order of the keys
UnpackVariablesLastFirst(h, variables) ==
    IF variables = <<>> THEN <<>>
    ELSE LET symbol == Head(variables)
         IN UnpackVariablesLastFirst(h, Tail(variables))
                \o (IF IsConcatenation(h[symbol]) THEN h[symbol].children ELSE <<symbol>>)

\* "Unpack symbols in variables that are concatenations of variables"
RECURSIVE UnpackVariables(_, _)
UnpackVariables(h, variables) ==
    IF variables = <<>> THEN <<>>
    ELSE LET symbol == Head(variables)
         IN (IF IsConcatenation(h[symbol]) THEN h[symbol].children ELSE <<symbol>>)
                \o UnpackVariables(h, Tail(variables))

\* the domains a lookup self._spatial_methods[dom].mesh[dom] succeeds for
Registered(sm, m, dom) == dom \in DOMAIN sm /\ dom \in DOMAIN m

\* sum of submesh.npts_for_broadcast over the submeshes of one domain
DomainPoints(m, dom) ==
    SumSeq([i \in DOMAIN m[dom] |-> m[dom][i].npts_for_broadcast])

\* VariableSize with the loop over variable.domain cut to its first domain
VariableSizeFirstDomain(m, domain) ==
    IF domain = <<>> THEN 1 ELSE DomainPoints(m, domain[1])

\* the number of entries of the state vector one variable takes
VariableSize(m, domain) ==
    IF domain = <<>> THEN 1
    ELSE SumSeq([i \in DOMAIN domain |-> DomainPoints(m, domain[i])])

RECURSIVE SliceLoopStaleStart(_, _, _, _, _, _)
\* SliceLoop without "start = end": every slice starts where the first did
SliceLoopStaleStart(h, sm, m, unpacked, start, ys) ==
    IF unpacked = <<>> THEN [ok |-> TRUE, ys |-> ys]
    ELSE LET variable == Head(unpacked)
             domain == h[variable].domain
         IN IF \E i \in DOMAIN domain : ~Registered(sm, m, domain[i])
            THEN [ok |-> FALSE, ys |-> ys]
            ELSE SliceLoopStaleStart(h, sm, m, Tail(unpacked), start,
                                     Put(ys, Id(h, variable),
                                         [start |-> start,
                                          stop |-> start + VariableSize(m, domain)]))

RECURSIVE SliceLoop(_, _, _, _, _, _)
\* the loop over unpacked_variables: [ok, ys]; not ok is the KeyError of a
\* domain without a spatial method
SliceLoop(h, sm, m, unpacked, start, ys) ==
    IF unpacked = <<>> THEN [ok |-> TRUE, ys |-> ys]
    ELSE LET variable == Head(unpacked)
             domain == h[variable].domain
         IN IF \E i \in DOMAIN domain : ~Registered(sm, m, domain[i])
            THEN [ok |-> FALSE, ys |-> ys]
            ELSE LET end == start + VariableSize(m, domain)
                 IN SliceLoop(h, sm, m, Tail(unpacked), end,
                              Put(ys, Id(h, variable), [start |-> start, stop |-> end]))

set_variable_slices(h, sm, m, variables) ==
    SliceLoop(h, sm, m, UnpackVariables(h, variables), 0, EmptyDict)

(***************************************************************************)
(* Results of a call that may raise: err = "" when the call returned, and  *)
(* the name of the exception otherwise.  io records that the call reached  *)
(* an interactive prompt (IPython embed, ipdb.set_trace).                  *)
(***************************************************************************)
Ok(h, r) == [h |-> h, r |-> r, err |-> "", io |-> FALSE]
Fail(h, e) == [h |-> h, r |-> NoAddr, err |-> e, io |-> FALSE]

\* the engine's lookup tables, read by process_symbol
Ctx(sm, m, ys, bc) == [sm |-> sm, mesh |-> m, ys |-> ys, bcs |-> bc]

\* BinaryOperator: the domain of a binary node from its children's domains
BinaryDomainOk(ld, rd) == ld = rd \/ ld = <<>> \/ rd = <<>>
BinaryDomain(ld, rd) == IF ld = <<>> THEN rd ELSE ld

BinaryName(kind) ==
    CASE kind = "Addition" -> "+"
      [] kind = "Subtraction" -> "-"
      [] kind = "Multiplication" -> "*"
      [] kind = "MatrixMultiplication" -> "@"
      [] kind = "Division" -> "/"
      [] OTHER -> "**"

\* kind(left, right): a new binary node over copies of left and right
MkBinary(h, kind, l, r) ==
    IF ~BinaryDomainOk(h[l].domain, h[r].domain) THEN Fail(h, "DomainError")
    ELSE New(h, Node(kind, BinaryName(kind), BinaryDomain(h[l].domain, h[r].domain),
                     <<>>, 0, 0, ""), <<l, r>>)

\* UnaryOperator.__init__: domain=child.domain
MkUnary(h, kind, name, child, side) ==
    New(h, Node(kind, name, h[child].domain, <<>>, 0, 0, side), <<child>>)

MkLeaf(h, kind, name, domain, a, b) == New(h, Node(kind, name, domain, <<>>, a, b, ""), <<>>)

\* node.domain = domain on an existing node
SetDomain(h, x, domain) == [h EXCEPT ![x].domain = domain]

\* Mesh.combine_submeshes(*domain)[0].npts: the points of the first submesh
\* of each domain, added up
CombinedPts(m, domain) == SumSeq([i \in DOMAIN domain |-> m[domain[i]][1].npts])
InMesh(m, domain) == \A i \in DOMAIN domain : domain[i] \in DOMAIN m

\* Symbol.is_constant: no variable, state vector or independent variable in
\* the tree
IsConstant(h, x) ==
    \A y \in Nodes(h, x) :
        h[y].kind \notin {"Variable", "StateVector", "Time", "SpatialVariable"}

(***************************************************************************)
(* Symbol.evaluate(t, y), as far as the shape of the result goes.  ylen is *)
(* the length of y, or NoY for y=None.                                     *)
(***************************************************************************)
NoY == -1
Num == [t |-> "num", n |-> 0, m |-> 0]
Vec(n) == [t |-> "vec", n |-> n, m |-> 0]
Mat(r, c) == [t |-> "mat", n |-> r, m |-> c]
Bad == [t |-> "err", n |-> 0, m |-> 0]

Min(x, y) == IF x < y THEN x ELSE y
Max(x, y) == IF x < y THEN y ELSE x

\* numpy broadcasting of an elementwise operation
Elementwise(l, r) ==
    CASE l.t = "err" \/ r.t = "err" -> Bad
      [] l.t = "num" -> r
      [] r.t = "num" -> l
      [] l.t = "vec" /\ r.t = "vec" ->
            IF l.n = r.n \/ r.n = 1 THEN l ELSE IF l.n = 1 THEN r ELSE Bad
      [] OTHER -> Bad

MatMul(l, r) ==
    CASE l.t = "mat" /\ r.t = "vec" -> IF l.m = r.n THEN Vec(l.n) ELSE Bad
      [] l.t = "mat" /\ r.t = "mat" -> IF l.m = r.n THEN Mat(l.n, r.m) ELSE Bad
      [] OTHER -> Bad

RECURSIVE Shape(_, _, _)
RECURSIVE ConcatLen(_, _, _)
\* the length of np.concatenate over the children, or -1 when one of them
\* cannot be evaluated; a child that evaluates to a number takes one entry
ConcatLen(h, kids, ylen) ==
    IF kids = <<>> THEN 0
    ELSE LET s == Shape(h, Head(kids), ylen)
             rest == ConcatLen(h, Tail(kids), ylen)
         IN IF s.t \in {"err", "mat"} \/ rest < 0 THEN -1
            ELSE (IF s.t = "num" THEN 1 ELSE s.n) + rest

Shape(h, x, ylen) ==
    LET n == h[x]
        k == n.kind
    IN CASE k \in {"Scalar", "Time"} -> Num
         [] k \in {"Array", "Vector"} -> Vec(n.a)
         [] k = "Matrix" -> Mat(n.a, n.b)
         [] k = "StateVector" ->
                IF ylen = NoY THEN Bad ELSE Vec(Min(n.b, ylen) - Min(n.a, ylen))
         [] k \in {"Negate", "AbsoluteValue", "Function"} ->
                Shape(h, n.children[1], ylen)
         [] k = "MatrixMultiplication" ->
                MatMul(Shape(h, n.children[1], ylen), Shape(h, n.children[2], ylen))
         [] k \in BinaryKinds \ {"MatrixMultiplication"} ->
                Elementwise(Shape(h, n.children[1], ylen), Shape(h, n.children[2], ylen))
         [] k = "NumpyBroadcast" ->
                Elementwise(Shape(h, n.children[1], ylen), Vec(n.a))
         [] k = "NumpyConcatenation" ->
                LET l == ConcatLen(h, n.children, ylen)
                IN IF l < 0 THEN Bad ELSE Vec(l)
         [] OTHER -> Bad

\* Symbol.evaluates_to_number: evaluate(t=0) returns a number
evaluates_to_number(h, x) == Shape(h, x, NoY).t = "num"

(***************************************************************************)
(* Spatial methods: SpatialMethod (the base class) and FiniteVolume        *)
(***************************************************************************)
WithIo(res, io) == [res EXCEPT !.io = res.io \/ io]

\* statement sequencing: an exception raised by the first call leaves the
\* function, otherwise the rest runs on the heap and the value it returned
Bind(res, rest(_, _)) == IF res.err # "" THEN res ELSE WithIo(rest(res.h, res.r), res.io)

\* SpatialMethod.broadcast: symbol * Vector(ones(vector_size), domain=domain)
SpatialMethod_broadcast(h, m, symbol, domain) ==
    IF ~InMesh(m, domain) THEN Fail(h, "KeyError")
    ELSE Bind(MkLeaf(h, "Vector", "Vector", domain, VariableSize(m, domain), 1),
              LAMBDA h1, v : MkBinary(h1, "Multiplication", symbol, v))

\* FiniteVolume_broadcast onto the first subdomain of domain only
FiniteVolume_broadcastFirstDomain(h, m, symbol, domain) ==
    IF ~InMesh(m, domain) THEN Fail(h, "KeyError")
    ELSE MkLeaf(h, "Array", "Array", domain, VariableSizeFirstDomain(m, domain), 0)

\* FiniteVolume.broadcast: NumpyBroadcast(symbol, domain, mesh), replaced by
\* an Array of its value when it is constant
FiniteVolume_broadcast(h, m, symbol, domain) ==
    IF ~InMesh(m, domain) THEN Fail(h, "KeyError")
    ELSE Bind(New(h, Node("NumpyBroadcast", "numpy broadcast", domain, <<>>,
                          VariableSize(m, domain), 0, ""), <<symbol>>),
              LAMBDA h1, nb :
                  IF ~IsConstant(h1, nb) THEN Ok(h1, nb)
                  ELSE IF Shape(h1, nb, NoY).t # "vec" THEN Fail(h1, "ValueError")
                  ELSE MkLeaf(h1, "Array", "Array", domain, Shape(h1, nb, NoY).n, 0))

broadcast(h, c, dom, symbol, domain) ==
    IF c.sm[dom] = "FiniteVolume" THEN FiniteVolume_broadcast(h, c.mesh, symbol, domain)
    ELSE SpatialMethod_broadcast(h, c.mesh, symbol, domain)

\* SpatialMethod.spatial_variable and FiniteVolume.spatial_variable
spatial_variable(h, c, dom, symbol) ==
    IF ~InMesh(c.mesh, h[symbol].domain) THEN Fail(h, "KeyError")
    ELSE IF c.sm[dom] = "FiniteVolume"
    THEN IF h[symbol].name \in {"x", "r"}
         THEN MkLeaf(h, "Vector", "Vector", <<>>, CombinedPts(c.mesh, h[symbol].domain), 0)
         ELSE Fail(h, "NotImplementedError")
    ELSE MkLeaf(h, "Vector", "Vector", h[symbol].domain,
                CombinedPts(c.mesh, h[symbol].domain), 0)

\* FiniteVolume.add_ghost_nodes.  lbc and rbc are the entries of the
\* boundary-condition table, which process_boundary_conditions stores as
\* (expression, type) pairs: 2 * lbc is then a tuple, and tuple - first_node
\* raises
add_ghost_nodes(h, discretised_symbol, lbc, rbc) ==
    IF h[discretised_symbol].kind # "StateVector" THEN Fail(h, "AssertionError")
    ELSE Bind(MkLeaf(h, "StateVector", "y", <<>>, h[discretised_symbol].a,
                     h[discretised_symbol].a + 1),
              LAMBDA h1, first_node : Fail(h1, "TypeError"))

\* FiniteVolume.gradient_matrix: an (n-1) x n matrix on the combined submesh;
\* ghost is the number of ghost cells the domain was extended by
gradient_matrix(h, m, domain, ghost) ==
    IF ~InMesh(m, domain) THEN Fail(h, "KeyError")
    ELSE LET n == CombinedPts(m, domain) + ghost
         IN MkLeaf(h, "Matrix", "Matrix", <<>>, n - 1, n)

\* FiniteVolume.divergence_matrix: an n x (n+1) matrix
divergence_matrix(h, m, domain) ==
    IF ~InMesh(m, domain) THEN Fail(h, "KeyError")
    ELSE LET n == CombinedPts(m, domain) + 1
         IN MkLeaf(h, "Matrix", "Matrix", <<>>, n - 1, n)

\* FiniteVolume.gradient
FiniteVolume_gradient(h, c, symbol, discretised_symbol) ==
    LET domain == h[symbol].domain
        sid == Id(h, symbol)
    IN IF sid \in DOMAIN c.bcs
       THEN IF ~({"left", "right"} \subseteq DOMAIN c.bcs[sid]) THEN Fail(h, "KeyError")
            ELSE Bind(add_ghost_nodes(h, discretised_symbol, c.bcs[sid]["left"],
                                      c.bcs[sid]["right"]),
                      LAMBDA h1, g :
                          Bind(gradient_matrix(h1, c.mesh, domain, 2),
                               LAMBDA h2, gm : MkBinary(h2, "MatrixMultiplication", gm, g)))
       ELSE Bind(gradient_matrix(h, c.mesh, domain, 0),
                 LAMBDA h1, gm :
                     MkBinary(h1, "MatrixMultiplication", gm, discretised_symbol))

\* ("negative particle" or "positive particle") in domain: the parenthesis
\* is the first string
SphericalCheck(domain) == "negative particle" \in Range(domain)

\* the spherical operator: (1 / (r ** 2)) * (D @ ((r_edges ** 2) * N))
SphericalDivergence(h, m, domain, dm, discretised_symbol) ==
    Bind(MkLeaf(h, "Vector", "Vector", <<>>, m[domain[1]][1].npts, 0), LAMBDA h1, r :
    Bind(MkLeaf(h1, "Vector", "Vector", <<>>, m[domain[1]][1].npts + 1, 0),
         LAMBDA h2, r_edges :
    Bind(MkLeaf(h2, "Scalar", "2", <<>>, 2, 0), LAMBDA h3, two1 :
    Bind(MkBinary(h3, "Power", r, two1), LAMBDA h4, r2 :
    Bind(MkLeaf(h4, "Scalar", "1", <<>>, 1, 0), LAMBDA h5, one :
    Bind(MkBinary(h5, "Division", one, r2), LAMBDA h6, inv :
    Bind(MkLeaf(h6, "Scalar", "2", <<>>, 2, 0), LAMBDA h7, two2 :
    Bind(MkBinary(h7, "Power", r_edges, two2), LAMBDA h8, re2 :
    Bind(MkBinary(h8, "Multiplication", re2, discretised_symbol), LAMBDA h9, flux :
    Bind(MkBinary(h9, "MatrixMultiplication", dm, flux), LAMBDA h10, dv :
    MkBinary(h10, "Multiplication", inv, dv)))))))))))

\* FiniteVolume.divergence.  A boundary-condition entry for the operand is
\* concatenated as it is stored, an (expression, type) pair, which
\* NumpyConcatenation rejects
FiniteVolume_divergence(h, c, symbol, discretised_symbol) ==
    LET domain == h[symbol].domain
        sid == Id(h, symbol)
    IN IF sid \in DOMAIN c.bcs
       THEN IF ~({"left", "right"} \subseteq DOMAIN c.bcs[sid]) THEN Fail(h, "KeyError")
            ELSE Fail(h, "TypeError")
       ELSE Bind(divergence_matrix(h, c.mesh, domain),
                 LAMBDA h1, dm :
                     IF SphericalCheck(domain)
                     THEN SphericalDivergence(h1, c.mesh, domain, dm, discretised_symbol)
                     ELSE MkBinary(h1, "MatrixMultiplication", dm, discretised_symbol))

\* SpatialMethod.boundary_value_or_flux (FiniteVolume does not override it)
boundary_value_or_flux(h, c, symbol, discretised_child) ==
    LET domain == h[discretised_child].domain
    IN IF ~InMesh(c.mesh, domain) THEN Fail(h, "KeyError")
       ELSE IF h[symbol].kind = "BoundaryFlux" THEN Fail(h, "TypeError")
       ELSE IF h[symbol].side \notin {"left", "right"} THEN Fail(h, "UnboundLocalError")
       ELSE IF CombinedPts(c.mesh, domain) = 0 THEN Fail(h, "ValueError")
       ELSE Bind(MkLeaf(h, "Matrix", "Matrix", <<>>, 1, CombinedPts(c.mesh, domain)),
                 LAMBDA h1, bv_vector :
                     Bind(MkBinary(h1, "MatrixMultiplication", bv_vector,
                                   discretised_child),
                          LAMBDA h2, out : Ok(SetDomain(h2, out, <<>>), out)))

RECURSIVE FlatDomains(_, _)
\* [dom for child in discretised_children for dom in child.domain]
FlatDomains(h, kids) ==
    IF kids = <<>> THEN <<>> ELSE h[Head(kids)].domain \o FlatDomains(h, Tail(kids))

\* "concatenation += sub_concatenation", from "concatenation = 0"
ConcatenationSum(h, acc, sub) ==
    IF acc = NoAddr
    THEN Bind(MkLeaf(h, "Scalar", "0", <<>>, 0, 0),
              LAMBDA h1, zero : MkBinary(h1, "Addition", zero, sub))
    ELSE MkBinary(h, "Addition", acc, sub)

RECURSIVE ConcatenationLoop(_, _, _, _, _)
\* the loop of domain_concatenation; acc is NoAddr while concatenation = 0
ConcatenationLoop(h, m, kids, total_domain, acc) ==
    IF kids = <<>> THEN Ok(h, acc)
    ELSE IF ~InMesh(m, total_domain) THEN Fail(h, "KeyError")
    ELSE IF h[Head(kids)].domain = <<>> THEN Fail(h, "IndexError")
    ELSE Bind(MkLeaf(h, "Matrix", "Matrix", <<>>, CombinedPts(m, total_domain),
                     CombinedPts(m, h[Head(kids)].domain)),
              LAMBDA h1, mt :
                  Bind(MkBinary(h1, "MatrixMultiplication", mt, Head(kids)),
                       LAMBDA h2, sub :
                           Bind(ConcatenationSum(SetDomain(h2, sub, total_domain), acc, sub),
                                LAMBDA h3, sum :
                                    ConcatenationLoop(h3, m, Tail(kids), total_domain,
                                                      sum))))

\* SpatialMethod.domain_concatenation: the sum of the children, each placed
\* by a selection matrix; before it returns it opens an IPython shell
\* (embed()) and the debugger (ipdb.set_trace())
domain_concatenation(h, c, discretised_children) ==
    Bind(ConcatenationLoop(h, c.mesh, discretised_children,
                           FlatDomains(h, discretised_children), NoAddr),
         LAMBDA h1, concatenation : WithIo(Ok(h1, concatenation), TRUE))

(***************************************************************************)
(* Discretisation.process_symbol                                           *)
(***************************************************************************)
RECURSIVE process_symbol(_, _, _)
RECURSIVE ProcessChildren(_, _, _)
\* [self.process_symbol(child) for child in symbol.children]
ProcessChildren(h, c, kids) ==
    IF kids = <<>> THEN Ok(h, <<>>)
    ELSE Bind(process_symbol(h, c, Head(kids)),
              LAMBDA h1, first :
                  Bind(ProcessChildren(h1, c, Tail(kids)),
                       LAMBDA h2, rest : Ok(h2, <<first>> \o rest)))

\* self._spatial_methods[domain[0]]: "" when the lookup succeeds
MethodLookup(c, domain) ==
    IF domain = <<>> THEN "IndexError"
    ELSE IF domain[1] \notin DOMAIN c.sm THEN "KeyError"
    ELSE ""

\* the rule for a BinaryOperator
ProcessBinary(h, c, symbol) ==
    Bind(process_symbol(h, c, h[symbol].children[1]),
         LAMBDA h1, new_left :
             Bind(process_symbol(h1, c, h[symbol].children[2]),
                  LAMBDA h2, new_right :
                      IF h[symbol].domain # <<>> /\ MethodLookup(c, h[symbol].domain) # ""
                      THEN Fail(h2, MethodLookup(c, h[symbol].domain))
                      \* SpatialMethod.process_binary_operators, which
                      \* FiniteVolume inherits, is
                      \* bin_op.__class__(disc_left, disc_right) as well
                      ELSE MkBinary(h2, h[symbol].kind, new_left, new_right)))

\* the spatial method's operation on the discretised child
SpatialOperation(h, c, symbol, child, discretised_child) ==
    LET k == h[symbol].kind
        fv == c.sm[h[child].domain[1]] = "FiniteVolume"
    IN CASE k = "Gradient" ->
              IF fv THEN FiniteVolume_gradient(h, c, child, discretised_child)
              ELSE Fail(h, "NotImplementedError")
         [] k = "Divergence" ->
              IF fv THEN FiniteVolume_divergence(h, c, child, discretised_child)
              ELSE Fail(h, "NotImplementedError")
         [] k \in IntegralKinds -> Fail(h, "NotImplementedError")
         [] OTHER -> boundary_value_or_flux(h, c, symbol, discretised_child)

\* the rules that discretise the only child and hand it to the spatial
\* method of the child's first domain
ProcessSpatial(h, c, symbol) ==
    Bind(process_symbol(h, c, h[symbol].children[1]),
         LAMBDA h1, discretised_child :
             IF MethodLookup(c, h[h[symbol].children[1]].domain) # ""
             THEN Fail(h1, MethodLookup(c, h[h[symbol].children[1]].domain))
             ELSE SpatialOperation(h1, c, symbol, h[symbol].children[1],
                                   discretised_child))

\* the rule for a Broadcast
ProcessBroadcast(h, c, symbol) ==
    Bind(process_symbol(h, c, h[symbol].children[1]),
         LAMBDA h1, new_child :
             IF h[symbol].domain = <<>>
             THEN Bind(MkLeaf(h1, "Vector", "Vector", <<>>, 1, 1),
                       LAMBDA h2, one : MkBinary(h2, "Multiplication", new_child, one))
             ELSE IF MethodLookup(c, h[symbol].domain) # ""
             THEN Fail(h1, MethodLookup(c, h[symbol].domain))
             ELSE broadcast(h1, c, h[symbol].domain[1], new_child, h[symbol].domain))

\* the rules for Function and for every other UnaryOperator:
\* symbol.__class__(new_child), which fails for a class whose constructor
\* takes more than the child
ProcessUnary(h, c, symbol) ==
    Bind(process_symbol(h, c, h[symbol].children[1]),
         LAMBDA h1, new_child :
             IF h[symbol].kind \in {"Function", "Negate", "AbsoluteValue"}
             THEN MkUnary(h1, h[symbol].kind, h[symbol].name, new_child, "")
             ELSE Fail(h1, "TypeError"))

\* a Variable answered with a copy of itself
ProcessVariableKept(h, c, symbol) ==
    MkLeaf(h, "Variable", h[symbol].name, h[symbol].domain, 0, 0)

\* the rule for a Variable with the slice taken from the start of y
ProcessVariableFromZero(h, c, symbol) ==
    IF Id(h, symbol) \notin DOMAIN c.ys THEN Fail(h, "KeyError")
    ELSE MkLeaf(h, "StateVector", "y", h[symbol].domain, 0, c.ys[Id(h, symbol)].stop)

\* the rule for a Variable
ProcessVariable(h, c, symbol) ==
    IF Id(h, symbol) \notin DOMAIN c.ys THEN Fail(h, "KeyError")
    ELSE LET sl == c.ys[Id(h, symbol)]
         IN MkLeaf(h, "StateVector", "y", h[symbol].domain, sl.start, sl.stop)

\* the rule for a Concatenation
ProcessConcatenation(h, c, symbol) ==
    Bind(ProcessChildren(h, c, h[symbol].children),
         LAMBDA h1, new_children :
             IF MethodLookup(c, h[symbol].domain) # ""
             THEN Fail(h1, MethodLookup(c, h[symbol].domain))
             ELSE domain_concatenation(h1, c, new_children))

\* a leaf answered with the leaf itself
CopyLeafShared(h, symbol) == Ok(h, symbol)

\* the leaves that are copied
CopyLeaf(h, symbol) ==
    LET n == h[symbol]
    IN IF n.kind = "Time" THEN MkLeaf(h, "Time", "time", <<>>, 0, 0)
       ELSE MkLeaf(h, n.kind, n.name, n.domain, n.a, n.b)

process_symbol(h, c, symbol) ==
    LET k == h[symbol].kind
    IN CASE k \in BinaryKinds -> ProcessBinary(h, c, symbol)
         [] k \in {"Gradient", "Divergence"} \cup IntegralKinds -> ProcessSpatial(h, c, symbol)
         [] k \in BroadcastKinds -> ProcessBroadcast(h, c, symbol)
         [] k \in BoundaryKinds -> ProcessSpatial(h, c, symbol)
         [] k \in UnaryKinds \ (({"Gradient", "Divergence"} \cup IntegralKinds)
                                   \cup BroadcastKinds \cup BoundaryKinds) ->
                ProcessUnary(h, c, symbol)
         [] k = "Variable" -> ProcessVariable(h, c, symbol)
         [] k = "SpatialVariable" ->
                IF MethodLookup(c, h[symbol].domain) # ""
                THEN Fail(h, MethodLookup(c, h[symbol].domain))
                ELSE spatial_variable(h, c, h[symbol].domain[1], symbol)
         [] k \in ConcatenationKinds -> ProcessConcatenation(h, c, symbol)
         [] k \in {"Scalar", "StateVector", "Time"} \cup ArrayKinds -> CopyLeaf(h, symbol)
         [] OTHER -> Fail(h, "NotImplementedError")

(***************************************************************************)
(* Dictionaries {key: equation} are sequences of entries in insertion      *)
(* order.  key is the address of the key symbol, or NoAddr for a string    *)
(* key, which is then skey.                                                *)
(***************************************************************************)
Entry(key, skey, eqn) == [key |-> key, skey |-> skey, eqn |-> eqn]

\* process_dict without the broadcast
BroadcastEquationNever(h, c, e) == Ok(h, e.eqn)

\* "if eqn.evaluates_to_number(): ... eqn = Broadcast / broadcast(eqn, domain)"
BroadcastEquation(h, c, e) ==
    IF ~(evaluates_to_number(h, e.eqn) /\ e.key # NoAddr) THEN Ok(h, e.eqn)
    ELSE IF h[e.key].domain = <<>>
    THEN New(h, Node("Broadcast", "broadcast", <<>>, <<>>, 0, 0, ""), <<e.eqn>>)
    ELSE IF MethodLookup(c, h[e.key].domain) # ""
    THEN Fail(h, MethodLookup(c, h[e.key].domain))
    ELSE broadcast(h, c, h[e.key].domain[1], e.eqn, h[e.key].domain)

RECURSIVE DictLoop(_, _, _, _)
\* Discretisation.process_dict, the loop over var_eqn_dict.items(); done is
\* new_var_eqn_dict so far
DictLoop(h, c, todo, done) ==
    IF todo = <<>> THEN Ok(h, done)
    ELSE Bind(BroadcastEquation(h, c, Head(todo)),
              LAMBDA h1, eqn :
                  Bind(process_symbol(h1, c, eqn),
                       LAMBDA h2, new_eqn :
                           DictLoop(h2, c, Tail(todo),
                                    Append(done, Entry(Head(todo).key, Head(todo).skey,
                                                       new_eqn)))))

process_dict(h, c, var_eqn_dict) == DictLoop(h, c, var_eqn_dict, <<>>)

(***************************************************************************)
(* Discretisation._concatenate_in_order                                    *)
(***************************************************************************)
Keys(d) == [i \in DOMAIN d |-> d[i].key]

\* the slice a key is sorted by: [ok, start, stop]; not ok is a KeyError
KeySlice(h, ys, symbol) ==
    IF IsConcatenation(h[symbol])
    THEN LET kids == h[symbol].children
         IN IF kids = <<>> \/ Id(h, kids[1]) \notin DOMAIN ys
               \/ Id(h, kids[Len(kids)]) \notin DOMAIN ys
            THEN [ok |-> FALSE, start |-> 0, stop |-> 0]
            ELSE [ok |-> TRUE, start |-> ys[Id(h, kids[1])].start,
                  stop |-> ys[Id(h, kids[Len(kids)])].stop]
    ELSE IF Id(h, symbol) \notin DOMAIN ys
         THEN [ok |-> FALSE, start |-> 0, stop |-> 0]
         ELSE [ok |-> TRUE, start |-> ys[Id(h, symbol)].start,
               stop |-> ys[Id(h, symbol)].stop]

\* slice comparison: as the tuples (start, stop, step)
SliceLess(s, t) == s.start < t.start \/ (s.start = t.start /\ s.stop < t.stop)

\* the positions of the dictionary as they are, not sorted
DictionaryPositions(sl) == [i \in DOMAIN sl |-> i]

\* sorted(zip(slices, equations)): the positions of the dictionary in the
\* order of their slices
RECURSIVE Insert(_, _, _)
Insert(sorted, i, sl) ==
    IF sorted = <<>> THEN <<i>>
    ELSE IF SliceLess(sl[i], sl[Head(sorted)]) THEN <<i>> \o sorted
    ELSE <<Head(sorted)>> \o Insert(Tail(sorted), i, sl)

RECURSIVE SortLoop(_, _, _)
SortLoop(sorted, i, sl) ==
    IF i > Len(sl) THEN sorted ELSE SortLoop(Insert(sorted, i, sl), i + 1, sl)

SortedPositions(sl) == SortLoop(<<>>, 1, sl)

\* NumpyConcatenation(*children)
MkConcatenation(h, kids) ==
    New(h, Node("NumpyConcatenation", "numpy concatenation", <<>>, <<>>, 0, 0, ""), kids)

_concatenate_in_order(h, ys, var_eqn_dict, check_complete) ==
    LET slices == [i \in DOMAIN var_eqn_dict |-> KeySlice(h, ys, var_eqn_dict[i].key)]
        unpacked_variables == UnpackVariables(h, Keys(var_eqn_dict))
        ids == {Id(h, unpacked_variables[i]) : i \in DOMAIN unpacked_variables}
    IN IF \E i \in DOMAIN slices : ~slices[i].ok THEN Fail(h, "KeyError")
       ELSE IF check_complete /\ ids # DOMAIN ys THEN Fail(h, "ModelError")
       \* two equal slices make sorted() compare the equations, which have
       \* no order
       ELSE IF \E i, j \in DOMAIN slices :
                  i # j /\ slices[i].start = slices[j].start
                        /\ slices[i].stop = slices[j].stop
       THEN Fail(h, "TypeError")
       ELSE LET order == SortedPositions(slices)
            IN MkConcatenation(h, [i \in DOMAIN order |-> var_eqn_dict[order[i]].eqn])

(***************************************************************************)
(* BaseModel                                                               *)
(***************************************************************************)
\* a numpy array: its length and the expressions whose values it holds, in
\* the order they lie in it
NdArray(n, pieces) == [n |-> n, pieces |-> pieces]
None == NdArray(-1, <<>>)

\* BaseModel(): empty dictionaries, _concatenated_rhs and
\* _concatenated_initial_conditions None; the attributes events,
\* concatenated_algebraic and mass_matrix do not exist until assigned
BaseModel ==
    [rhs |-> <<>>, algebraic |-> <<>>, initial_conditions |-> <<>>,
     boundary_conditions |-> <<>>, variables |-> <<>>,
     events |-> <<>>, has_events |-> FALSE,
     concatenated_rhs |-> NoAddr,
     concatenated_algebraic |-> NoAddr, has_concatenated_algebraic |-> FALSE,
     concatenated_initial_conditions |-> None,
     mass_matrix |-> <<>>, has_mass_matrix |-> FALSE]

\* the check of _set_dict on the keys that have a domain only
_set_dictWithDomain(h, d) ==
    \A i \in DOMAIN d : h[d[i].key].domain = <<>>
                            \/ h[d[i].key].domain = h[d[i].eqn].domain
                            \/ h[d[i].eqn].domain = <<>>

\* BaseModel._set_dict: every equation has the domain of its key or none
\* (else DomainError)
_set_dict(h, d) ==
    \A i \in DOMAIN d : h[d[i].key].domain = h[d[i].eqn].domain
                            \/ h[d[i].eqn].domain = <<>>

\* the identities of the variables in the tree of x
VariableIds(h, x) == {Id(h, y) : y \in {n \in Nodes(h, x) : h[n].kind = "Variable"}}

\* Symbol.has_spatial_derivatives: a gradient or a divergence in the tree
has_spatial_derivatives(h, x) ==
    \E y \in Nodes(h, x) : h[y].kind \in {"Gradient", "Divergence"}

\* the messages of the ModelErrors of check_well_posedness
RepeatedKeys == "model is overdetermined (repeated keys)"
ExtraAlgebraicKeys == "model is overdetermined (extra algebraic keys)"
TooManyVariables == "model is underdetermined (too many variables)"
NoInitialCondition == "no initial condition given for variable"
NoBoundaryCondition == "no boundary condition given for variable"

\* the identities of the keys of d that are variables themselves
vars_in_keysOutermost(h, d) ==
    {Id(h, d[i].key) : i \in {j \in DOMAIN d : h[d[j].key].kind = "Variable"}}

\* "vars_in_rhs_keys", "vars_in_algebraic_keys": the identities of the
\* variables in the keys of d, those inside a concatenation key included
vars_in_keys(h, d) == UNION {VariableIds(h, d[i].key) : i \in DOMAIN d}

\* "vars_in_eqns": the identities of the variables in the equations
vars_in_eqns(h, model) ==
    UNION {VariableIds(h, e) : e \in {model.rhs[i].eqn : i \in DOMAIN model.rhs}
                                      \cup {model.algebraic[i].eqn :
                                               i \in DOMAIN model.algebraic}}

\* "if any(x in vars_in_algebraic_keys for x in vars_in_rhs_keys)"
repeated_keys(h, model) ==
    vars_in_keys(h, model.rhs) \cap vars_in_keys(h, model.algebraic) # {}

\* the variables of the keys of rhs and of algebraic that no equation holds
extra_keys(h, model) ==
    (vars_in_keys(h, model.rhs) \cup vars_in_keys(h, model.algebraic))
        \ vars_in_eqns(h, model)

\* "extra_algebraic_keys = vars_in_algebraic_keys.difference(vars_in_eqns)"
extra_algebraic_keys(h, model) == vars_in_keys(h, model.algebraic) \ vars_in_eqns(h, model)

\* the variables of the equations that are in no key of rhs
extra_variablesOfRhs(h, model) == vars_in_eqns(h, model) \ vars_in_keys(h, model.rhs)

\* "extra_variables = vars_in_eqns.difference(vars_in_keys)"
extra_variables(h, model) ==
    vars_in_eqns(h, model)
        \ (vars_in_keys(h, model.rhs) \cup vars_in_keys(h, model.algebraic))

\* "if var not in self.initial_conditions.keys()" for some key of rhs
no_initial_condition(h, model) ==
    \E i \in DOMAIN model.rhs :
        \A j \in DOMAIN model.initial_conditions :
            Id(h, model.initial_conditions[j].key) # Id(h, model.rhs[i].key)

\* var is the key of boundary_conditions itself
is_boundary_condition_key(h, var, key) == Id(h, var) = Id(h, key)

\* "any(var.id == symbol.id for symbol in key.pre_order())" for a key of
\* boundary_conditions
in_boundary_condition_key(h, var, key) == Id(h, var) \in {Id(h, y) : y \in Nodes(h, key)}

\* some equation of rhs or algebraic has spatial derivatives and its key is
\* in no key of boundary_conditions
no_boundary_condition(h, model) ==
    \E e \in Range(model.rhs \o model.algebraic) :
        /\ has_spatial_derivatives(h, e.eqn)
        /\ \A j \in DOMAIN model.boundary_conditions :
              ~in_boundary_condition_key(h, e.key, model.boundary_conditions[j].key)

\* BaseModel.check_well_posedness: "" or the message of the ModelError it
\* raises
check_well_posedness(h, model) ==
    IF repeated_keys(h, model) THEN RepeatedKeys
    ELSE IF extra_algebraic_keys(h, model) # {} THEN ExtraAlgebraicKeys
    ELSE IF extra_variables(h, model) # {} THEN TooManyVariables
    ELSE IF no_initial_condition(h, model) THEN NoInitialCondition
    ELSE IF no_boundary_condition(h, model) THEN NoBoundaryCondition
    ELSE ""

(***************************************************************************)
(* Discretisation.process_boundary_conditions, process_initial_conditions, *)
(* process_rhs_and_algebraic and the loop over the events                  *)
(***************************************************************************)
RECURSIVE SidesLoop(_, _, _, _)
\* for side, bc in bcs.items(): processed_bcs[key.id][side] = (eqn, typ)
SidesLoop(h, c, todo, done) ==
    IF todo = <<>> THEN Ok(h, done)
    ELSE Bind(process_symbol(h, c, Head(todo).eqn),
              LAMBDA h1, processed_eqn :
                  SidesLoop(h1, c, Tail(todo),
                            Put(done, Head(todo).side,
                                [eqn |-> processed_eqn, typ |-> Head(todo).typ])))

RECURSIVE BcsLoop(_, _, _, _)
\* for key, bcs in model.boundary_conditions.items()
BcsLoop(h, c, todo, done) ==
    IF todo = <<>> THEN Ok(h, done)
    ELSE Bind(SidesLoop(h, c, Head(todo).sides, EmptyDict),
              LAMBDA h1, sides :
                  BcsLoop(h1, c, Tail(todo), Put(done, Id(h, Head(todo).key), sides)))

process_boundary_conditions(h, c, model) ==
    BcsLoop(h, c, model.boundary_conditions, EmptyDict)

\* the value is [ics, concat_ics]; concat_ics is the array
\* concatenated_ics.evaluate(0, None) returns: the values of the children of
\* the concatenation, one after the other
process_initial_conditions(h, c, model) ==
    Bind(process_dict(h, c, model.initial_conditions),
         LAMBDA h1, processed_initial_conditions :
             Bind(_concatenate_in_order(h1, c.ys, processed_initial_conditions, TRUE),
                  LAMBDA h2, processed_concatenated_initial_conditions :
                      IF Shape(h2, processed_concatenated_initial_conditions, NoY).t # "vec"
                      THEN Fail(h2, "TypeError")
                      ELSE Ok(h2, [ics |-> processed_initial_conditions,
                                   concat_ics |->
                                       NdArray(Shape(h2,
                                                     processed_concatenated_initial_conditions,
                                                     NoY).n,
                                               h2[processed_concatenated_initial_conditions]
                                                   .children)])))

\* the value is [rhs, concat_rhs, alg, concat_alg]
process_rhs_and_algebraic(h, c, model) ==
    Bind(process_dict(h, c, model.rhs), LAMBDA h1, processed_rhs :
    Bind(_concatenate_in_order(h1, c.ys, processed_rhs, FALSE),
         LAMBDA h2, processed_concatenated_rhs :
    Bind(process_dict(h2, c, model.algebraic), LAMBDA h3, processed_algebraic :
    Bind(_concatenate_in_order(h3, c.ys, processed_algebraic, FALSE),
         LAMBDA h4, processed_concatenated_algebraic :
    Ok(h4, [rhs |-> processed_rhs, concat_rhs |-> processed_concatenated_rhs,
            alg |-> processed_algebraic,
            concat_alg |-> processed_concatenated_algebraic])))))

RECURSIVE EventsLoop(_, _, _, _)
\* processed_events[idx] = self.process_symbol(event)
EventsLoop(h, c, todo, done) ==
    IF todo = <<>> THEN Ok(h, done)
    ELSE Bind(process_symbol(h, c, Head(todo)),
              LAMBDA h1, processed_event :
                  EventsLoop(h1, c, Tail(todo), Append(done, processed_event)))

(***************************************************************************)
(* Discretisation.create_mass_matrix                                       *)
(***************************************************************************)
\* the mass matrix of the primary dimension alone: eye(n)
mass_matrixPrimary(m, domain) == CombinedPts(m, domain)

\* SpatialMethod.mass_matrix: kron(eye(sec_pts), eye(n)); its side
mass_matrix(m, domain) == CombinedPts(m, domain) * Len(m[domain[1]])

\* the block of one rhs variable: [size, zero, err]
MassBlock(h, sm, m, var) ==
    LET domain == h[var].domain
    IN IF domain = <<>> THEN [size |-> 1, zero |-> FALSE, err |-> ""]
       ELSE IF domain[1] \notin DOMAIN sm \/ ~InMesh(m, domain)
       THEN [size |-> 0, zero |-> FALSE, err |-> "KeyError"]
       ELSE [size |-> mass_matrix(m, domain), zero |-> FALSE, err |-> ""]

\* [blocks, err]: the diagonal blocks of the mass matrix, in order
create_mass_matrix(h, sm, m, ys, model) ==
    LET model_variables == Keys(model.rhs)
        model_slices == [i \in DOMAIN model_variables |-> KeySlice(h, ys, model_variables[i])]
        bad(e) == [blocks |-> <<>>, err |-> e]
    IN IF \E i \in DOMAIN model_slices : ~model_slices[i].ok THEN bad("KeyError")
       ELSE IF \E i, j \in DOMAIN model_slices :
                  i # j /\ model_slices[i].start = model_slices[j].start
                        /\ model_slices[i].stop = model_slices[j].stop
       THEN bad("TypeError")
       ELSE LET order == SortedPositions(model_slices)
                mass_list == [i \in DOMAIN order |->
                                 MassBlock(h, sm, m, model_variables[order[i]])]
            IN IF \E i \in DOMAIN mass_list : mass_list[i].err # "" THEN bad("KeyError")
               ELSE IF model.algebraic = <<>> THEN [blocks |-> mass_list, err |-> ""]
               \* y0 = model.concatenated_initial_conditions;
               \* model.concatenated_algebraic.evaluate(0, y0).shape[0]
               ELSE IF ~model.has_concatenated_algebraic THEN bad("AttributeError")
               ELSE LET s == Shape(h, model.concatenated_algebraic,
                                   model.concatenated_initial_conditions.n)
                    IN IF s.t # "vec" THEN bad("TypeError")
                       ELSE [blocks |-> Append(mass_list,
                                               [size |-> s.n, zero |-> TRUE, err |-> ""]),
                             err |-> ""]

(***************************************************************************)
(* Discretisation.check_model: "" or the exception it raises               *)
(***************************************************************************)
\* d[key] on a dictionary: the position of the key object, 0 if absent
Lookup(d, key) ==
    IF \E i \in DOMAIN d : d[i].key = key
    THEN CHOOSE i \in DOMAIN d : d[i].key = key
    ELSE 0

LookupName(d, name) ==
    IF \E i \in DOMAIN d : d[i].key = NoAddr /\ d[i].skey = name
    THEN CHOOSE i \in DOMAIN d : d[i].key = NoAddr /\ d[i].skey = name
    ELSE 0

\* the leniency of the variables check: a Concatenation, or a
\* multiplication by a vector of ones
IsBroadcasted(h, var) ==
    \/ IsConcatenation(h[var])
    \/ /\ h[var].kind = "Multiplication"
       /\ h[h[var].children[2]].kind = "Vector"
       /\ h[h[var].children[2]].b = 1

\* the checks of one rhs key: shapes of rhs and initial condition
RhsShapeCheck(h, model, i, y0) ==
    LET var == model.rhs[i].key
        j == Lookup(model.initial_conditions, var)
    IN IF j = 0 THEN "KeyError"
       ELSE LET r == Shape(h, model.rhs[i].eqn, y0)
                ic == Shape(h, model.initial_conditions[j].eqn, NoY)
            IN IF r.t = "err" \/ ic.t = "err" THEN "TypeError"
               ELSE IF r.t = "num" \/ ic.t = "num" THEN "AttributeError"
               ELSE IF r # ic THEN "AssertionError"
               ELSE ""

\* the check of one rhs key against the variable of its name
VariableShapeCheck(h, model, i, y0) ==
    LET rhs_var == model.rhs[i].key
        j == LookupName(model.variables, h[rhs_var].name)
    IN IF j = 0 THEN ""
       ELSE LET var == model.variables[j].eqn
                r == Shape(h, model.rhs[i].eqn, y0)
                v == Shape(h, var, y0)
            IN IF r.t = "err" \/ v.t = "err" THEN "TypeError"
               ELSE IF r.t = "num" \/ v.t = "num" THEN "AttributeError"
               ELSE IF r = v \/ IsBroadcasted(h, var) THEN ""
               ELSE "ModelError"

FirstError(errs) ==
    IF \A i \in DOMAIN errs : errs[i] = "" THEN ""
    ELSE errs[CHOOSE i \in DOMAIN errs :
                  errs[i] # "" /\ \A j \in 1..(i - 1) : errs[j] = ""]

check_model(h, model) ==
    LET y0 == model.concatenated_initial_conditions.n
        rhs == [i \in DOMAIN model.rhs |-> RhsShapeCheck(h, model, i, y0)]
        cr == Shape(h, model.concatenated_rhs, y0)
        ca == Shape(h, model.concatenated_algebraic, y0)
        total == IF cr.t # "vec" \/ ca.t # "vec" THEN "TypeError"
                 ELSE IF cr.n + ca.n # y0 THEN "AssertionError" ELSE ""
        vs == [i \in DOMAIN model.rhs |-> VariableShapeCheck(h, model, i, y0)]
    IN FirstError(rhs \o <<total>> \o vs)

(***************************************************************************)
(* The symbolic models given to process_model.  A template is a tree of    *)
(* records; Alloc places it in the heap as model-construction code would   *)
(* have built it.                                                          *)
(***************************************************************************)
T(kind, name, domain, kids, a, b, side) ==
    [kind |-> kind, name |-> name, domain |-> domain, kids |-> kids, a |-> a, b |-> b,
     side |-> side]

RECURSIVE Alloc(_, _, _)
RECURSIVE AllocSeq(_, _, _)
AllocSeq(h, ts, parent) ==
    IF ts = <<>> THEN [h |-> h, rs |-> <<>>]
    ELSE LET first == Alloc(h, Head(ts), parent)
             rest == AllocSeq(first.h, Tail(ts), parent)
         IN [h |-> rest.h, rs |-> <<first.r>> \o rest.rs]

Alloc(h, t, parent) ==
    LET x == Len(h) + 1
        h1 == Append(h, [Node(t.kind, t.name, t.domain, <<>>, t.a, t.b, t.side)
                            EXCEPT !.parent = parent])
        kids == AllocSeq(h1, t.kids, x)
    IN [h |-> [kids.h EXCEPT ![x].children = kids.rs], r |-> x]

neg == "negative electrode"
sep == "separator"
pos == "positive electrode"
part == "negative particle"
ppart == "positive particle"

Variable(name, domain) == T("Variable", name, domain, <<>>, 0, 0, "")
Scalar(value) == T("Scalar", "scalar", <<>>, <<>>, value, 0, "")
Vector(n, domain) == T("Vector", "Vector", domain, <<>>, n, 0, "")
Time == T("Time", "time", <<>>, <<>>, 0, 0, "")
SpatialVariable(name, domain) == T("SpatialVariable", name, domain, <<>>, 0, 0, "")
Parameter(name) == T("Parameter", name, <<>>, <<>>, 0, 0, "")
Unary(kind, name, t) == T(kind, name, t.domain, <<t>>, 0, 0, "")
Negate(t) == Unary("Negate", "-", t)
AbsoluteValue(t) == Unary("AbsoluteValue", "abs", t)
Function(t) == Unary("Function", "function (exp)", t)
Index(t) == Unary("Index", "index", t)
Gradient(t) == Unary("Gradient", "grad", t)
Divergence(t) == Unary("Divergence", "div", t)
Integral(t) == T("Integral", "integral dx", <<>>, <<t>>, 0, 0, "")
IndefiniteIntegral(t) == T("IndefiniteIntegral", "integrated w.r.t x", t.domain, <<t>>, 0, 0, "")
BoundaryValue(t, side) == T("BoundaryValue", "boundary", <<>>, <<t>>, 0, 0, side)
Broadcast(t, domain) == T("Broadcast", "broadcast", domain, <<t>>, 0, 0, "")
Binary(kind, l, r) ==
    T(kind, BinaryName(kind), BinaryDomain(l.domain, r.domain), <<l, r>>, 0, 0, "")
Concatenation(ts) ==
    T("Concatenation", "concatenation",
      IF Len(ts) = 2 THEN ts[1].domain \o ts[2].domain ELSE ts[1].domain, ts, 0, 0, "")

\* the unknowns of the models
var_a == Variable("a", <<>>)
var_b == Variable("b", <<>>)
var_c == Variable("c", <<neg>>)
var_w == Variable("w", <<neg, sep>>)
var_n == Variable("c_n", <<neg>>)
var_s == Variable("c_s", <<sep>>)
var_p == Variable("p", <<part>>)
var_q == Variable("q", <<ppart>>)
var_z == Variable("z", <<>>)
cat_ns == Concatenation(<<var_n, var_s>>)

\* the keys of rhs and of algebraic, in declaration order
LayoutRhs(l) ==
    CASE l = 1 -> <<var_a>>
      [] l = 2 -> <<var_c, var_a>>
      [] l = 3 -> <<var_a>>
      [] l = 4 -> <<cat_ns>>
      [] l = 5 -> <<var_w, var_a>>
      [] l = 6 -> <<var_a>>
      [] l = 7 -> <<var_n, cat_ns>>
      [] l = 8 -> <<var_p, var_a>>
      [] OTHER -> <<var_q, var_a>>

LayoutAlg(l) ==
    CASE l = 3 -> <<var_c>>
      [] l = 4 -> <<var_b>>
      [] l = 6 -> <<var_a>>
      [] OTHER -> <<>>

Layouts == 1..9

\* the equation of a key
Equation(k, eq) ==
    CASE eq = 1 -> Scalar(1)
      [] eq = 2 -> IF k.kind = "Concatenation" THEN k
                   ELSE IF k.domain = <<>> THEN Negate(k)
                   ELSE Divergence(Gradient(k))
      [] eq = 3 -> IF k.kind = "Concatenation" THEN Broadcast(Time, k.domain)
                   ELSE IF k.domain = <<>> THEN Binary("Multiplication", k, Function(Time))
                   ELSE Binary("Multiplication", Broadcast(var_a, k.domain), k)
      [] OTHER -> Vector(2, k.domain)

RECURSIVE Dedup(_, _)
\* the keys of one dictionary: no template twice
Dedup(ks, seen) ==
    IF ks = <<>> THEN <<>>
    ELSE IF Head(ks) \in seen THEN Dedup(Tail(ks), seen)
    ELSE <<Head(ks)>> \o Dedup(Tail(ks), seen \cup {Head(ks)})

Reverse(sq) == [i \in DOMAIN sq |-> sq[Len(sq) + 1 - i]]

RECURSIVE UnpackTemplates(_)
UnpackTemplates(ks) ==
    IF ks = <<>> THEN <<>>
    ELSE (IF Head(ks).kind = "Concatenation" THEN Head(ks).kids ELSE <<Head(ks)>>)
            \o UnpackTemplates(Tail(ks))

\* the initial conditions: <<key, equation>> pairs
InitialConditions(l, ic) ==
    LET ks == Dedup(LayoutRhs(l) \o LayoutAlg(l), {})
        one(sq) == [i \in DOMAIN sq |-> <<sq[i], Scalar(1)>>]
    IN CASE ic = 1 -> one(ks)
         [] ic = 2 -> one(Reverse(ks))
         [] ic = 3 -> one(SubSeq(ks, 1, Len(ks) - 1))
         [] ic = 4 -> one(ks \o <<var_z>>)
         [] ic = 5 -> [i \in DOMAIN ks |-> <<ks[i], Vector(2, ks[i].domain)>>]
         [] OTHER -> one(Dedup(UnpackTemplates(ks), {}))

\* free-standing expressions: output variables and events
Diagnostic(d) ==
    CASE d = 1 -> var_a
      [] d = 2 -> var_z
      [] d = 3 -> Scalar(5)
      [] d = 4 -> AbsoluteValue(var_a)
      [] d = 5 -> Index(var_a)
      [] d = 6 -> SpatialVariable("x", <<neg>>)
      [] d = 7 -> BoundaryValue(var_c, "right")
      [] d = 8 -> Integral(var_c)
      [] d = 9 -> Broadcast(var_a, <<neg, sep>>)
      [] d = 10 -> Parameter("param")
      [] d = 11 -> Binary("Addition", var_c, Broadcast(Scalar(1), <<neg>>))
      [] d = 12 -> Gradient(var_c)
      [] d = 13 -> Concatenation(<<Broadcast(var_a, <<neg>>), Broadcast(Time, <<sep>>)>>)
      [] d = 14 -> Binary("Subtraction", Vector(3, <<>>), Time)
      [] d = 15 -> T("StateVector", "y", <<>>, <<>>, 0, 1, "")
      [] d = 16 -> IndefiniteIntegral(var_c)
      [] d = 17 -> Divergence(var_p)
      [] d = 18 -> SpatialVariable("y", <<neg>>)
      [] d = 19 -> T("BoundaryFlux", "boundary flux", <<>>, <<var_c>>, 0, 0, "left")
      [] d = 20 -> Broadcast(Scalar(2), <<>>)
      [] d = 21 -> Divergence(var_c)
      [] d = 23 -> Binary("Multiplication", var_c, Gradient(var_c))
      [] d = 24 -> Binary("Addition", Gradient(var_c), Gradient(var_c))
      [] d = 25 -> BoundaryValue(var_c, "left")
      [] d = 26 -> Negate(var_c)
      [] OTHER -> T("Matrix", "Matrix", <<>>, <<>>, 2, 2, "")

Diagnostics == 1..26

\* boundary conditions for every key that is a variable with a domain
BoundaryConditions(l) ==
    LET ks == Dedup(LayoutRhs(l) \o LayoutAlg(l), {})
        with == SelectSeq(ks, LAMBDA k : k.kind = "Variable" /\ k.domain # <<>>)
    IN [i \in DOMAIN with |->
           [key |-> with[i],
            sides |-> <<[side |-> "left", eqn |-> Scalar(1), typ |-> "Dirichlet"],
                        [side |-> "right", eqn |-> Scalar(0), typ |-> "Neumann"]>>]]

\* boundary conditions whose left side is the gradient of the key
BoundaryConditionsOfGradient(l) ==
    [i \in DOMAIN BoundaryConditions(l) |->
        [BoundaryConditions(l)[i] EXCEPT
            !.sides[1].eqn = Gradient(BoundaryConditions(l)[i].key)]]

\* a model: [layout, eq, ic, diag, ev, bc]
\* bc: 0 no boundary conditions, 1 numbers, 2 the gradient of the key
\* ev: 0 the model has no attribute events, 1 an empty list, 2 one event
Scenario(l, eq, ic, d, ev, bc) ==
    [layout |-> l, eq |-> eq, ic |-> ic, diag |-> d, ev |-> ev, bc |-> bc]

Scenarios ==
    {Scenario(l, 1, 1, 0, 1, 0) : l \in Layouts}
        \cup {Scenario(l, eq, IF eq = 4 THEN 5 ELSE 1, 0, 1, bc) :
                 l \in {2, 3, 4, 8, 9}, eq \in 2..4, bc \in 0..1}
        \cup {Scenario(l, 1, ic, 0, 2, 0) : l \in {2, 3, 4}, ic \in 2..6}
        \cup {Scenario(l, 1, 1, d, 1, 0) : l \in {2, 4}, d \in Diagnostics}
        \cup {Scenario(2, 2, 1, d, 1, 0) : d \in {2, 6, 7, 9}}
        \cup {Scenario(1, 1, 1, 0, 0, 0)}
        \cup {Scenario(2, 1, 1, 0, 1, bc) : bc \in 1..2}

(***************************************************************************)
(* Construction of a model in the heap                                     *)
(***************************************************************************)
\* the key object of a template: the first declared key of that template,
\* NoAddr if the template is not a key of rhs or algebraic
KeyObject(kts, kas, t) ==
    IF \E i \in DOMAIN kts : kts[i] = t
    THEN kas[CHOOSE i \in DOMAIN kts : kts[i] = t /\ \A j \in 1..(i - 1) : kts[j] # t]
    ELSE NoAddr

RECURSIVE BuildDict(_, _)
\* entries [ka, kt, skey, eqn]: ka the key object (NoAddr: a new object of
\* template kt, or the string skey), eqn the template of the equation
BuildDict(h, entries) ==
    IF entries = <<>> THEN [h |-> h, d |-> <<>>]
    ELSE LET e == Head(entries)
             k == IF e.ka # NoAddr \/ e.skey # "" THEN [h |-> h, r |-> e.ka]
                  ELSE Alloc(h, e.kt, NoAddr)
             q == Alloc(k.h, e.eqn, NoAddr)
             rest == BuildDict(q.h, Tail(entries))
         IN [h |-> rest.h, d |-> <<Entry(k.r, e.skey, q.r)>> \o rest.d]

RECURSIVE BuildSides(_, _)
BuildSides(h, sides) ==
    IF sides = <<>> THEN [h |-> h, d |-> <<>>]
    ELSE LET q == Alloc(h, Head(sides).eqn, NoAddr)
             rest == BuildSides(q.h, Tail(sides))
         IN [h |-> rest.h,
             d |-> <<[side |-> Head(sides).side, eqn |-> q.r, typ |-> Head(sides).typ]>>
                      \o rest.d]

RECURSIVE BuildBcs(_, _, _, _)
BuildBcs(h, todo, kts, kas) ==
    IF todo = <<>> THEN [h |-> h, d |-> <<>>]
    ELSE LET sd == BuildSides(h, Head(todo).sides)
             rest == BuildBcs(sd.h, Tail(todo), kts, kas)
         IN [h |-> rest.h,
             d |-> <<[key |-> KeyObject(kts, kas, Head(todo).key), sides |-> sd.d]>>
                      \o rest.d]

\* the event of a model: its last unknown without a domain reaches one
Event(l) == Binary("Subtraction", IF l = 4 THEN var_b ELSE var_a, Scalar(1))

\* [h, model]: the heap and the model object of a scenario
BuildModelIn(h, sc) ==
    LET rk == LayoutRhs(sc.layout)
        ak == LayoutAlg(sc.layout)
        kts == rk \o ak
        keys == AllocSeq(h, kts, NoAddr)
        kas == keys.rs
        eqs(ks, off) == [i \in DOMAIN ks |->
                            [ka |-> kas[off + i], kt |-> ks[i], skey |-> "",
                             eqn |-> Equation(ks[i], sc.eq)]]
        rhs == BuildDict(keys.h, eqs(rk, 0))
        alg == BuildDict(rhs.h, eqs(ak, Len(rk)))
        ict == InitialConditions(sc.layout, sc.ic)
        ics == BuildDict(alg.h, [i \in DOMAIN ict |->
                                    [ka |-> KeyObject(kts, kas, ict[i][1]), kt |-> ict[i][1],
                                     skey |-> "", eqn |-> ict[i][2]]])
        bct == CASE sc.bc = 1 -> BoundaryConditions(sc.layout)
                 [] sc.bc = 2 -> BoundaryConditionsOfGradient(sc.layout)
                 [] OTHER -> <<>>
        bc == BuildBcs(ics.h, bct, kts, kas)
        vs == BuildDict(bc.h, IF sc.diag = 0 THEN <<>>
                              ELSE <<[ka |-> NoAddr, kt |-> var_a, skey |-> "v",
                                      eqn |-> Diagnostic(sc.diag)]>>)
        ev == AllocSeq(vs.h, IF sc.ev = 2 THEN <<Event(sc.layout)>> ELSE <<>>, NoAddr)
    IN [h |-> ev.h,
        model |-> [BaseModel EXCEPT !.rhs = rhs.d, !.algebraic = alg.d,
                                    !.initial_conditions = ics.d,
                                    !.boundary_conditions = bc.d,
                                    !.variables = vs.d,
                                    !.events = ev.rs, !.has_events = sc.ev # 0]]

\* a model built in an empty heap
BuildModel(sc) == BuildModelIn(<<>>, sc)

(***************************************************************************)
(* Discretisation.__init__                                                 *)
(***************************************************************************)
\* a submesh after SpatialMethod.__init__: npts_for_broadcast = npts
SubMesh(npts) == [npts |-> npts, npts_for_broadcast |-> npts]

\* the mesh: s submeshes over the negative electrode and over the particle
MeshOf(n, s) ==
    (neg :> [i \in 1..s |-> SubMesh(n)]) @@ (sep :> <<SubMesh(n + 1)>>)
        @@ (pos :> <<SubMesh(n)>>) @@ (part :> [i \in 1..s |-> SubMesh(2)])
        @@ (ppart :> <<SubMesh(2)>>)

\* the spatial_methods argument
MethodsArgument(k) ==
    CASE k = 1 -> ("macroscale" :> "FiniteVolume") @@ (part :> "FiniteVolume")
                    @@ (ppart :> "FiniteVolume")
      [] k = 2 -> ("macroscale" :> "SpatialMethod")
      [] OTHER -> (neg :> "FiniteVolume") @@ (sep :> "SpatialMethod")

\* a registration that leaves the separator out
UnpackMacroscaleElectrodes(sm) ==
    IF "macroscale" \in DOMAIN sm
    THEN [d \in (DOMAIN sm) \cup {neg, pos} |->
             IF d \in {neg, pos} THEN sm["macroscale"] ELSE sm[d]]
    ELSE sm

\* "Unpack macroscale to the constituent subdomains"
UnpackMacroscale(sm) ==
    IF "macroscale" \in DOMAIN sm
    THEN [d \in (DOMAIN sm) \cup {neg, sep, pos} |->
             IF d \in {neg, sep, pos} THEN sm["macroscale"] ELSE sm[d]]
    ELSE sm

\* the engines: Discretisation(mesh, spatial_methods) and Discretisation()
Engines ==
    {[mesh |-> MeshOf(n, s), sm |-> UnpackMacroscale(MethodsArgument(k))] :
        n \in 1..MaxPts, s \in 1..MaxSub, k \in 1..3}
        \cup {[mesh |-> EmptyDict, sm |-> EmptyDict]}

Init ==
    \E e \in Engines, sc \in Scenarios, ip \in BOOLEAN :
        LET b == BuildModel(sc)
        IN /\ heap = b.h
           /\ mesh = e.mesh
           /\ spatial_methods = e.sm
           /\ y_slices = EmptyDict
           /\ bcs = EmptyDict
           /\ models = <<b.model>>
           /\ given = b.model
           /\ inplace = ip
           /\ model_disc = NoAddr
           /\ pc = "start"
           /\ err = ""
           /\ prompted = FALSE
           /\ calls = 1
           /\ known_evals = EmptyDict
           /\ evaluated = <<>>
           /\ log = <<>>

(***************************************************************************)
(* Discretisation.process_model, stage by stage                            *)
(***************************************************************************)
C == Ctx(spatial_methods, mesh, y_slices, bcs)

\* an exception leaves process_model
Raise(e) == pc' = "failed" /\ err' = e

\* "self._y_slices = y_slices", the last statement of set_variable_slices
AssignSlices(r) ==
    IF r.ok
    THEN y_slices' = r.ys /\ pc' = "bcs" /\ err' = err
            /\ log' = Append(log, "set_variable_slices")
    ELSE y_slices' = y_slices /\ Raise("KeyError") /\ log' = log

\* "variables = list(model.rhs.keys()) + list(model.algebraic.keys())" and
\* "self.set_variable_slices(variables)"
SetVariableSlices ==
    /\ pc = "start"
    /\ UNCHANGED <<calls, evaluations>>
    /\ AssignSlices(set_variable_slices(heap, spatial_methods, mesh,
                                        Keys(models[1].rhs) \o Keys(models[1].algebraic)))
    /\ UNCHANGED <<given, heap, mesh, spatial_methods, bcs, models, inplace, model_disc,
                   prompted>>

AssignBcs(r) ==
    /\ heap' = r.h
    /\ prompted' = (prompted \/ r.io)
    /\ IF r.err = ""
       THEN bcs' = r.r /\ pc' = "inplace" /\ err' = err
               /\ log' = Append(log, "process_boundary_conditions")
       ELSE bcs' = bcs /\ Raise(r.err) /\ log' = log

\* "self._bcs = self.process_boundary_conditions(model)"
ProcessBoundaryConditions ==
    /\ pc = "bcs"
    /\ UNCHANGED <<calls, evaluations>>
    /\ AssignBcs(process_boundary_conditions(heap, C, models[1]))
    /\ UNCHANGED <<given, mesh, spatial_methods, y_slices, models, inplace, model_disc>>

\* "if inplace: model_disc = model, else: model_disc = pybamm.BaseModel()"
SetUpInplace ==
    /\ pc = "inplace"
    /\ UNCHANGED <<calls, evaluations>>
    /\ IF inplace
       THEN model_disc' = 1 /\ models' = models
       ELSE model_disc' = Len(models) + 1 /\ models' = Append(models, BaseModel)
    /\ pc' = "ics"
    /\ UNCHANGED <<given, heap, mesh, spatial_methods, y_slices, bcs, inplace, err, prompted,
                   log>>

\* "model_disc.initial_conditions = ics" (the setter checks the domains) and
\* "model_disc.concatenated_initial_conditions = concat_ics"
AssignInitialConditions(r) ==
    /\ heap' = r.h
    /\ prompted' = (prompted \/ r.io)
    /\ IF r.err # "" THEN models' = models /\ Raise(r.err) /\ log' = log
       ELSE IF ~_set_dict(r.h, r.r.ics)
       THEN models' = models /\ Raise("DomainError") /\ log' = log
       ELSE /\ models' = [models EXCEPT
                             ![model_disc].initial_conditions = r.r.ics,
                             ![model_disc].concatenated_initial_conditions =
                                 r.r.concat_ics]
            /\ pc' = "rhs" /\ err' = err
            /\ log' = Append(log, "process_initial_conditions")

\* "ics, concat_ics = self.process_initial_conditions(model)"
ProcessInitialConditions ==
    /\ pc = "ics"
    /\ UNCHANGED <<calls, evaluations>>
    /\ AssignInitialConditions(process_initial_conditions(heap, C, models[1]))
    /\ UNCHANGED <<given, mesh, spatial_methods, y_slices, bcs, inplace, model_disc>>

\* "model_disc.rhs, model_disc.concatenated_rhs = rhs, concat_rhs" and
\* "model_disc.algebraic, model_disc.concatenated_algebraic = alg, concat_alg":
\* four assignments in this order, the first and the third through setters
AssignRhsAndAlgebraic(r) ==
    /\ heap' = r.h
    /\ prompted' = (prompted \/ r.io)
    /\ IF r.err # "" THEN models' = models /\ Raise(r.err) /\ log' = log
       ELSE IF ~_set_dict(r.h, r.r.rhs)
       THEN models' = models /\ Raise("DomainError") /\ log' = log
       ELSE IF ~_set_dict(r.h, r.r.alg)
       THEN /\ models' = [models EXCEPT ![model_disc].rhs = r.r.rhs,
                                        ![model_disc].concatenated_rhs = r.r.concat_rhs]
            /\ Raise("DomainError") /\ log' = log
       ELSE /\ models' = [models EXCEPT
                             ![model_disc].rhs = r.r.rhs,
                             ![model_disc].concatenated_rhs = r.r.concat_rhs,
                             ![model_disc].algebraic = r.r.alg,
                             ![model_disc].concatenated_algebraic = r.r.concat_alg,
                             ![model_disc].has_concatenated_algebraic = TRUE]
            /\ pc' = "variables" /\ err' = err
            /\ log' = Append(log, "process_rhs_and_algebraic")

\* "rhs, concat_rhs, alg, concat_alg = self.process_rhs_and_algebraic(model)"
ProcessRhsAndAlgebraic ==
    /\ pc = "rhs"
    /\ UNCHANGED <<calls, evaluations>>
    /\ AssignRhsAndAlgebraic(process_rhs_and_algebraic(heap, C, models[1]))
    /\ UNCHANGED <<given, mesh, spatial_methods, y_slices, bcs, inplace, model_disc>>

\* the assignment of the variables, followed by the mass matrix instead of
\* the events
AssignVariablesBeforeMassMatrix(r) ==
    /\ heap' = r.h
    /\ prompted' = (prompted \/ r.io)
    /\ IF r.err # "" THEN models' = models /\ Raise(r.err) /\ log' = log
       ELSE /\ models' = [models EXCEPT ![model_disc].variables = r.r]
            /\ pc' = "mass_matrix" /\ err' = err
            /\ log' = Append(log, "variables")

AssignVariables(r) ==
    /\ heap' = r.h
    /\ prompted' = (prompted \/ r.io)
    /\ IF r.err # "" THEN models' = models /\ Raise(r.err) /\ log' = log
       ELSE /\ models' = [models EXCEPT ![model_disc].variables = r.r]
            /\ pc' = "events" /\ err' = err
            /\ log' = Append(log, "variables")

\* "model_disc.variables = self.process_dict(model.variables)"
ProcessVariables ==
    /\ pc = "variables"
    /\ UNCHANGED <<calls, evaluations>>
    /\ AssignVariables(process_dict(heap, C, models[1].variables))
    /\ UNCHANGED <<given, mesh, spatial_methods, y_slices, bcs, inplace, model_disc>>

\* "model_disc.events = processed_events"
AssignEvents(r) ==
    /\ heap' = r.h
    /\ prompted' = (prompted \/ r.io)
    /\ IF r.err # "" THEN models' = models /\ Raise(r.err) /\ log' = log
       ELSE /\ models' = [models EXCEPT ![model_disc].events = r.r,
                                        ![model_disc].has_events = TRUE]
            /\ pc' = "mass_matrix" /\ err' = err
            /\ log' = Append(log, "events")

\* "Process events": len(model.events), the loop and the assignment
ProcessEvents ==
    /\ pc = "events"
    /\ UNCHANGED <<calls, evaluations>>
    /\ IF ~models[1].has_events
       THEN AssignEvents(Fail(heap, "AttributeError"))
       ELSE AssignEvents(EventsLoop(heap, C, models[1].events, <<>>))
    /\ UNCHANGED <<given, mesh, spatial_methods, y_slices, bcs, inplace, model_disc>>

AssignMassMatrix(r) ==
    IF r.err # "" THEN models' = models /\ Raise(r.err) /\ log' = log
    ELSE /\ models' = [models EXCEPT ![model_disc].mass_matrix = r.blocks,
                                     ![model_disc].has_mass_matrix = TRUE]
         /\ pc' = "check_model" /\ err' = err
         /\ log' = Append(log, "create_mass_matrix")

\* "model_disc.mass_matrix = self.create_mass_matrix(model)"
CreateMassMatrix ==
    /\ pc = "mass_matrix"
    /\ UNCHANGED <<calls, evaluations>>
    /\ AssignMassMatrix(create_mass_matrix(heap, spatial_methods, mesh, y_slices,
                                           models[1]))
    /\ UNCHANGED <<given, heap, mesh, spatial_methods, y_slices, bcs, inplace, model_disc,
                   prompted>>

Return(e) ==
    IF e # "" THEN Raise(e) /\ log' = log
    ELSE pc' = "done" /\ err' = err /\ log' = Append(log, "check_model")

\* "self.check_model(model_disc)" and "return model_disc"
CheckModel ==
    /\ pc = "check_model"
    /\ UNCHANGED <<calls, evaluations>>
    /\ Return(check_model(heap, models[model_disc]))
    /\ UNCHANGED <<given, heap, mesh, spatial_methods, y_slices, bcs, models, inplace,
                   model_disc, prompted>>

Next ==
    \/ SetVariableSlices
    \/ ProcessBoundaryConditions
    \/ SetUpInplace
    \/ ProcessInitialConditions
    \/ ProcessRhsAndAlgebraic
    \/ ProcessVariables
    \/ ProcessEvents
    \/ CreateMassMatrix
    \/ CheckModel

Spec == Init /\ [][Next]_vars

(***************************************************************************)
(* Several process_model calls on one engine                               *)
(***************************************************************************)
\* largest number of process_model calls on one engine
MaxCalls == 2

\* the models of the calls
CallScenarios == {Scenario(l, 1, 1, 0, 1, bc) : l \in {1, 2}, bc \in 1..2}

CallsInit ==
    \E e \in Engines, sc \in CallScenarios :
    \E b \in {BuildModel(sc)} :
        /\ heap = b.h
        /\ mesh = e.mesh
        /\ spatial_methods = e.sm
        /\ y_slices = EmptyDict
        /\ bcs = EmptyDict
        /\ models = <<b.model>>
        /\ given = b.model
        /\ inplace = TRUE
        /\ model_disc = NoAddr
        /\ pc = "start"
        /\ err = ""
        /\ prompted = FALSE
        /\ calls = 1
        /\ known_evals = EmptyDict
        /\ evaluated = <<>>
        /\ log = <<>>

\* process_model is called again on the engine, after the call before has
\* returned or raised: the engine keeps _y_slices and _bcs
ProcessModelAgain ==
    /\ pc \in {"done", "failed"}
    /\ calls < MaxCalls
    /\ \E sc \in CallScenarios :
       \E b \in {BuildModelIn(heap, sc)} :
          /\ heap' = b.h
          /\ models' = <<b.model>>
          /\ given' = b.model
    /\ model_disc' = NoAddr
    /\ pc' = "start"
    /\ err' = ""
    /\ log' = <<>>
    /\ calls' = calls + 1
    /\ UNCHANGED <<mesh, spatial_methods, y_slices, bcs, inplace, prompted, evaluations>>

CallsNext ==
    \/ Next
    \/ ProcessModelAgain

CallsSpec == CallsInit /\ [][CallsNext]_vars

(***************************************************************************)
(* Properties of the slice map                                             *)
(***************************************************************************)
\* the unknowns set_variable_slices was called on, concatenations unpacked
Unknowns == UnpackVariables(heap, Keys(models[1].rhs) \o Keys(models[1].algebraic))

\* set_variable_slices has returned
SlicesAssigned == log # <<>>

DistinctUnknowns ==
    \A i, j \in DOMAIN Unknowns : i # j => Id(heap, Unknowns[i]) # Id(heap, Unknowns[j])

RECURSIVE TotalLength(_, _)
\* the sum of the lengths of the slices of ids
TotalLength(ys, ids) ==
    IF ids = {} THEN 0
    ELSE LET i == CHOOSE x \in ids : TRUE
         IN (ys[i].stop - ys[i].start) + TotalLength(ys, ids \ {i})

\* the slices, sorted by start, tile [0, N): the first starts at 0, each
\* next one starts where another stops, no two overlap, and N is the sum of
\* the lengths
Tiles(ys) ==
    /\ \A i \in DOMAIN ys : 0 <= ys[i].start /\ ys[i].start <= ys[i].stop
    /\ DOMAIN ys # {} => \E i \in DOMAIN ys : ys[i].start = 0
    /\ \A i \in DOMAIN ys :
          ys[i].start = 0 \/ \E j \in DOMAIN ys : j # i /\ ys[j].stop = ys[i].start
    /\ \A i, j \in DOMAIN ys :
          i # j => ys[i].stop <= ys[j].start \/ ys[j].stop <= ys[i].start
    /\ \A i \in DOMAIN ys : ys[i].stop <= TotalLength(ys, DOMAIN ys)

\* C1 as stated: after set_variable_slices on any sequence of unknowns the
\* slices tile [0, N).  It fails for a sequence that names one unknown
\* twice: the second slice replaces the first and leaves a gap.
C1_AnySequenceTiles == SlicesAssigned => Tiles(y_slices)

\* C1: after set_variable_slices on a sequence of unknowns whose unpacked
\* members have pairwise distinct identities, the slices sorted by start
\* tile [0, N) exactly: the first starts at 0, each next slice starts where
\* the previous one stops, no two overlap, and N is the sum of the lengths.
C1_DistinctUnknownsTile == (SlicesAssigned /\ DistinctUnknowns) => Tiles(y_slices)

\* three distinct unknowns, two of them the children of a concatenation key,
\* have their slices
C1_Witness ==
    /\ SlicesAssigned /\ DistinctUnknowns
    /\ Cardinality(DOMAIN y_slices) = 3
    /\ \E i \in DOMAIN models[1].rhs : IsConcatenation(heap[models[1].rhs[i].key])

\* the length C2 states for an unknown of the given domain
StatedLength(domain) ==
    IF domain = <<>> THEN 1
    ELSE SumSeq([i \in DOMAIN domain |->
                    SumSeq([j \in DOMAIN mesh[domain[i]] |->
                               mesh[domain[i]][j].npts_for_broadcast])])

\* C2: set_variable_slices gives a domain-less unknown a slice of length 1
\* and a domain-bearing unknown a slice whose length is the sum, over the
\* subdomains of its domain, of npts_for_broadcast of that subdomain's
\* submeshes.
C2_SliceLengths ==
    SlicesAssigned =>
        \A i \in DOMAIN Unknowns :
            LET sl == y_slices[Id(heap, Unknowns[i])]
            IN sl.stop - sl.start = StatedLength(heap[Unknowns[i]].domain)

\* an unknown over two subdomains, the first of them with two submeshes, and
\* an unknown without a domain have their slices
C2_Witness ==
    /\ SlicesAssigned
    /\ \E i, j \in DOMAIN Unknowns :
          /\ Len(heap[Unknowns[i]].domain) = 2
          /\ Len(mesh[heap[Unknowns[i]].domain[1]]) = 2
          /\ heap[Unknowns[j]].domain = <<>>
          /\ y_slices[Id(heap, Unknowns[j])].stop
                = y_slices[Id(heap, Unknowns[j])].start + 1

(***************************************************************************)
(* Properties of process_model                                             *)
(***************************************************************************)
\* process_model has returned the discretised model
Accepted == pc = "done"

\* C3 as stated: for any model process_model accepts, the slice lengths add
\* up to the length of concatenated_initial_conditions.
C3_SliceCoverage ==
    Accepted =>
        TotalLength(y_slices, DOMAIN y_slices)
            = models[model_disc].concatenated_initial_conditions.n

\* every initial condition of the model given evaluates to a number, so
\* that process_dict broadcasts it onto its key
NumberValuedInitialConditions ==
    \A i \in DOMAIN given.initial_conditions :
        evaluates_to_number(heap, given.initial_conditions[i].eqn)

\* C3 with distinct unknowns alone: refuted by initial conditions that are
\* arrays of another length than their key's slice
C3_DistinctOnly ==
    Accepted /\ DistinctUnknowns =>
        TotalLength(y_slices, DOMAIN y_slices)
            = models[model_disc].concatenated_initial_conditions.n

\* C3 for the models it holds for: when process_model accepts a model whose
\* unknowns have pairwise distinct identities and whose initial conditions
\* all evaluate to numbers, the slice lengths add up to the length of
\* concatenated_initial_conditions.
C3_SliceCoverageOfBroadcastConditions ==
    Accepted /\ DistinctUnknowns /\ NumberValuedInitialConditions =>
        TotalLength(y_slices, DOMAIN y_slices)
            = models[model_disc].concatenated_initial_conditions.n

\* an accepted model with two unknowns, one of them on several mesh points
C3_Witness ==
    /\ Accepted /\ DistinctUnknowns /\ NumberValuedInitialConditions
    /\ Len(Unknowns) >= 2
    /\ \E i \in DOMAIN y_slices : y_slices[i].stop - y_slices[i].start >= 2
    /\ models[model_disc].concatenated_initial_conditions.n >= 3

(***************************************************************************)
(* Properties of _concatenate_in_order                                     *)
(***************************************************************************)
Done(stage) == stage \in Range(log)

\* the span a key is placed by: its own slice, or for a concatenation key
\* from its first child's slice start to its last child's slice stop
KeySpan(key) ==
    IF IsConcatenation(heap[key])
    THEN [start |-> y_slices[Id(heap, heap[key].children[1])].start,
          stop |-> y_slices[Id(heap, heap[key].children[Len(heap[key].children)])].stop]
    ELSE y_slices[Id(heap, key)]

SpanBefore(s, t) == s.start < t.start \/ (s.start = t.start /\ s.stop < t.stop)

\* c is e or a copy of e
SameSymbol(c, e) == [heap[c] EXCEPT !.parent = NoAddr] = [heap[e] EXCEPT !.parent = NoAddr]

Orderings(n) == {p \in [1..n -> 1..n] : \A i, j \in 1..n : i # j => p[i] # p[j]}

\* pieces are the equations of d, each once, the one whose key's span comes
\* first first
PlacedInOrder(d, pieces) ==
    /\ Len(pieces) = Len(d)
    /\ \E p \in Orderings(Len(d)) :
          /\ \A i \in DOMAIN d : SameSymbol(pieces[i], d[p[i]].eqn)
          /\ \A i \in 1..(Len(d) - 1) :
                /\ KeySpan(d[p[i]].key).start <= KeySpan(d[p[i + 1]].key).start
                /\ SpanBefore(KeySpan(d[p[i]].key), KeySpan(d[p[i + 1]].key))

\* C4: concatenated_rhs, concatenated_algebraic and
\* concatenated_initial_conditions hold the equations of their dictionary in
\* increasing order of the span of the key (a concatenation key's span runs
\* from its first child's start to its last child's stop), whatever the
\* order of the dictionary: the arrangement is the only increasing one.
C4_ConcatenatedInSliceOrder ==
    /\ Done("process_initial_conditions") =>
            PlacedInOrder(models[model_disc].initial_conditions,
                          models[model_disc].concatenated_initial_conditions.pieces)
    /\ Done("process_rhs_and_algebraic") =>
            /\ PlacedInOrder(models[model_disc].rhs,
                             heap[models[model_disc].concatenated_rhs].children)
            /\ PlacedInOrder(models[model_disc].algebraic,
                             heap[models[model_disc].concatenated_algebraic].children)

\* initial conditions given in another order than the slices, one of them
\* for a concatenation key, with equations that can be told apart
C4_Witness ==
    /\ Accepted
    /\ LET d == models[model_disc].initial_conditions
           pieces == models[model_disc].concatenated_initial_conditions.pieces
       IN /\ \E i, j \in DOMAIN d : i < j /\ SpanBefore(KeySpan(d[j].key), KeySpan(d[i].key))
          /\ \E i \in DOMAIN d : IsConcatenation(heap[d[i].key])
          /\ \A i, j \in DOMAIN pieces : i # j => ~SameSymbol(pieces[i], pieces[j])

(***************************************************************************)
(* Properties of the initial-conditions check                              *)
(***************************************************************************)
\* process_model has left process_initial_conditions with an exception
FailedAtInitialConditions == pc = "failed" /\ Len(log) = 2

\* process_initial_conditions was entered and has been left
InitialConditionsProcessed ==
    FailedAtInitialConditions \/ Done("process_initial_conditions")

\* process_dict has discretised the initial conditions
InitialConditionsDiscretise == process_dict(heap, C, given.initial_conditions).err = ""

\* the identities of the unpacked initial-condition keys
InitialConditionIds ==
    {Id(heap, v) : v \in Range(UnpackVariables(heap, Keys(given.initial_conditions)))}

\* C5 as stated: once the initial conditions are discretised, process_model
\* fails with the initial-conditions error (ModelError) if and only if the
\* identities of the unpacked initial-condition keys differ from the keys of
\* the slice map.
C5_InitialConditionsError ==
    InitialConditionsProcessed /\ InitialConditionsDiscretise =>
        ((FailedAtInitialConditions /\ err = "ModelError")
            <=> InitialConditionIds # DOMAIN y_slices)

\* an initial condition for an unknown without a slice has made
\* process_model fail, not with the initial-conditions error
C5_ExtraInitialCondition ==
    /\ FailedAtInitialConditions /\ InitialConditionsDiscretise
    /\ InitialConditionIds \ DOMAIN y_slices # {}
    /\ DOMAIN y_slices \subseteq InitialConditionIds
    /\ err = "KeyError"

\* what process_initial_conditions does instead: ModelError when an unknown
\* has no initial condition and every initial-condition key has a slice,
\* KeyError as soon as one initial-condition key has no slice
C5_UpToKeyError ==
    InitialConditionsProcessed /\ InitialConditionsDiscretise =>
        /\ (FailedAtInitialConditions /\ err \in {"ModelError", "KeyError"})
                <=> InitialConditionIds # DOMAIN y_slices
        /\ (FailedAtInitialConditions /\ err = "KeyError")
                <=> InitialConditionIds \ DOMAIN y_slices # {}

(***************************************************************************)
(* Properties of process_model(model, inplace=False)                       *)
(***************************************************************************)
WellPosed == check_well_posedness(heap, given) = ""

\* the discretised model has a mass matrix and passes check_model
DiscretisedModelSound ==
    /\ Done("events")
    /\ create_mass_matrix(heap, spatial_methods, mesh, y_slices, models[model_disc]).err = ""
    /\ check_model(heap, models[model_disc]) = ""

\* C6, the part about the input: with inplace=False the model given is
\* never changed and the model returned is another object.
C6_InputUntouched ==
    ~inplace => models[1] = given /\ (Accepted => model_disc # 1)

\* C6 as stated: process_model(model, inplace=False) completes for every
\* well-posed model whose discretised equations are sound, with or without
\* algebraic equations, returns a model distinct from the input and leaves
\* the input as it was.
C6_NotInplaceCompletes ==
    ~inplace =>
        /\ models[1] = given
        /\ Accepted => model_disc # 1
        /\ WellPosed /\ DiscretisedModelSound => pc # "failed"

\* a well-posed model with an algebraic equation that is discretised in
\* place
C6_InPlaceWithAlgebraic ==
    inplace /\ Accepted /\ WellPosed /\ given.algebraic # <<>>

\* the same with inplace=False: process_model has failed
C6_NotInplaceWithAlgebraicFails ==
    /\ ~inplace /\ WellPosed /\ DiscretisedModelSound /\ given.algebraic # <<>>
    /\ pc = "failed" /\ err = "AttributeError"

(***************************************************************************)
(* Properties of process_symbol                                            *)
(***************************************************************************)
Equations(d) == {d[i].eqn : i \in DOMAIN d}

\* the trees process_model has handed to process_symbol, directly or through
\* process_dict, in the stages that have returned
Submitted ==
    (IF Done("process_boundary_conditions")
     THEN UNION {{given.boundary_conditions[i].sides[j].eqn :
                     j \in DOMAIN given.boundary_conditions[i].sides} :
                 i \in DOMAIN given.boundary_conditions}
     ELSE {})
        \cup (IF Done("process_initial_conditions")
              THEN Equations(given.initial_conditions) ELSE {})
        \cup (IF Done("process_rhs_and_algebraic")
              THEN Equations(given.rhs) \cup Equations(given.algebraic) ELSE {})
        \cup (IF Done("variables") THEN Equations(given.variables) ELSE {})
        \cup (IF Done("events") THEN Range(given.events) ELSE {})

\* the trees process_symbol has returned for them
Discretised ==
    (IF Done("process_boundary_conditions")
     THEN UNION {{bcs[k][sd].eqn : sd \in DOMAIN bcs[k]} : k \in DOMAIN bcs}
     ELSE {})
        \cup (IF Done("process_initial_conditions")
              THEN Equations(models[model_disc].initial_conditions) ELSE {})
        \cup (IF Done("process_rhs_and_algebraic")
              THEN Equations(models[model_disc].rhs)
                       \cup Equations(models[model_disc].algebraic)
              ELSE {})
        \cup (IF Done("variables") THEN Equations(models[model_disc].variables) ELSE {})
        \cup (IF Done("events") THEN Range(models[model_disc].events) ELSE {})

KindsIn(roots) == {heap[n].kind : n \in UNION {Nodes(heap, r) : r \in roots}}

ContinuousKinds ==
    {"Variable", "Gradient", "Divergence", "Integral", "IndefiniteIntegral",
     "SpatialVariable"} \cup BoundaryKinds

DiscreteKinds ==
    {"StateVector", "Scalar", "Time", "Function", "Negate", "AbsoluteValue"}
        \cup ArrayKinds \cup ConcatenationKinds \cup BinaryKinds

NoSharedNode ==
    UNION {Nodes(heap, r) : r \in Discretised}
        \cap UNION {Nodes(heap, r) : r \in Submitted} = {}

\* a step leaves every node object that exists as it is: kind, name, domain,
\* children, parent and payload
NodesKept == \A x \in DOMAIN heap : x \in DOMAIN heap' /\ heap'[x] = heap[x]

\* the trees and dictionaries of the model given are where they were
TreesKept == models[1] = given \/ inplace

\* C8: process_symbol and process_dict never modify the tree or dictionary
\* they are given (every node keeps its kind, name, domain, children and
\* parent), and a returned tree shares no node object with the tree handed
\* in; leaves are returned as fresh copies.
C8_InputPreserved == [](NoSharedNode /\ TreesKept) /\ [][NodesKept]_vars

\* process_symbol has returned for trees that are a single leaf, for a
\* boundary value and for operators, some of them in dictionaries
C8_Witness ==
    /\ Done("variables")
    /\ \E r \in Submitted : heap[r].kind \in {"Scalar", "Vector", "StateVector", "Time"}
    /\ {"BoundaryValue", "Divergence", "Variable"} \subseteq KindsIn(Submitted)
    /\ Equations(given.variables) # {}

\* process_symbol on the variable x, in the present state of the tables
OnVariable(x) == process_symbol(heap, C, x)

VariableRule(x) ==
    IF Id(heap, x) \in DOMAIN y_slices
    THEN /\ OnVariable(x).err = ""
         /\ LET sv == OnVariable(x).h[OnVariable(x).r]
            IN /\ sv.kind = "StateVector"
               /\ sv.a = y_slices[Id(heap, x)].start /\ sv.b = y_slices[Id(heap, x)].stop
               /\ sv.domain = heap[x].domain
    ELSE /\ OnVariable(x).err = "KeyError"
         /\ SubSeq(OnVariable(x).h, 1, Len(heap)) = heap

\* the stages that call process_symbol leave the slice map and the
\* boundary-condition table as they are, whether they return or fail
TablesKept ==
    pc \in {"ics", "rhs", "variables", "events"} => y_slices' = y_slices /\ bcs' = bcs

\* the error a variable without a slice is answered with is raised for
\* nothing else: a tree process_symbol fails on with that error has such a
\* variable
ErrorIsDedicated ==
    \A x \in DOMAIN heap :
        process_symbol(heap, C, x).err = "KeyError" =>
            \E v \in Nodes(heap, x) :
                heap[v].kind = "Variable" /\ Id(heap, v) \notin DOMAIN y_slices

BroadcastLength(key) ==
    IF heap[key].domain = <<>> THEN 1 ELSE KeySpan(key).stop - KeySpan(key).start

\* every number-valued equation of the dictionary handed in has become a
\* vector of the length of its key in the dictionary returned
BroadcastOntoKeys(before, after) ==
    \A i \in DOMAIN before :
        evaluates_to_number(heap, before[i].eqn) /\ before[i].key # NoAddr =>
            Shape(heap, after[i].eqn, NoY) = Vec(BroadcastLength(before[i].key))

\* the same for keys that are strings: a vector of length 1
BroadcastOntoNames(before, after) ==
    \A i \in DOMAIN before :
        evaluates_to_number(heap, before[i].eqn) /\ before[i].key = NoAddr =>
            Shape(heap, after[i].eqn, NoY) = Vec(1)

\* C10 for dictionaries keyed by symbols: process_dict broadcasts every
\* equation that evaluates to a number onto the domain of its key, so that
\* the discretised equation evaluates to a vector of the length of the
\* key's slice, of length 1 for a key without a domain; this holds for every
\* entry of initial_conditions, rhs and algebraic.
C10_BroadcastOntoSymbolKeys ==
    /\ Done("process_initial_conditions") =>
            BroadcastOntoKeys(given.initial_conditions,
                              models[model_disc].initial_conditions)
    /\ Done("process_rhs_and_algebraic") =>
            /\ BroadcastOntoKeys(given.rhs, models[model_disc].rhs)
            /\ BroadcastOntoKeys(given.algebraic, models[model_disc].algebraic)

\* C10 as stated, for every entry of every dictionary process_dict is
\* handed: the entries of variables, whose keys are names, included.
C10_BroadcastEveryEntry ==
    /\ C10_BroadcastOntoSymbolKeys
    /\ Done("variables") =>
            /\ BroadcastOntoKeys(given.variables, models[model_disc].variables)
            /\ BroadcastOntoNames(given.variables, models[model_disc].variables)

\* rhs with a number-valued equation for a key on several mesh points and
\* one for a key without a domain, and a number-valued output variable
C10_Witness ==
    /\ Done("variables")
    /\ \E i \in DOMAIN given.rhs :
          /\ evaluates_to_number(heap, given.rhs[i].eqn)
          /\ heap[given.rhs[i].key].domain # <<>>
          /\ BroadcastLength(given.rhs[i].key) >= 2
    /\ \E i \in DOMAIN given.rhs :
          /\ evaluates_to_number(heap, given.rhs[i].eqn)
          /\ heap[given.rhs[i].key].domain = <<>>
    /\ \E i \in DOMAIN given.variables :
          evaluates_to_number(heap, given.variables[i].eqn)

(***************************************************************************)
(* BaseModel: the setters, update and check_well_posedness, called on      *)
(* models as the model classes build them                                  *)
(***************************************************************************)
\* a Python number given as an equation
Number(value) == T("Number", "number", <<>>, <<>>, value, 0, "")

\* the dictionaries {key: equation} given to the rhs setter
RhsDicts ==
    << <<>>,
       << <<var_a, Negate(var_a)>> >>,
       << <<var_a, Binary("Addition", var_a, var_b)>> >>,
       << <<var_c, Divergence(Gradient(var_c))>> >>,
       << <<cat_ns, Divergence(Gradient(cat_ns))>> >>,
       << <<var_a, Scalar(1)>> >>,
       << <<var_c, Negate(var_s)>> >>,
       << <<var_a, Number(1)>>, <<var_c, Negate(var_c)>> >> >>

\* the dictionaries given to the algebraic setter
AlgebraicDicts ==
    << <<>>,
       << <<var_b, Binary("Subtraction", var_b, var_a)>> >>,
       << <<var_b, Scalar(1)>> >>,
       << <<var_a, Negate(var_a)>> >>,
       << <<var_n, Negate(var_n)>> >>,
       << <<cat_ns, Concatenation(<<Negate(var_n), Negate(var_s)>>)>> >>,
       << <<cat_ns, Integral(var_n)>> >>,
       << <<var_c, Divergence(Gradient(var_c))>> >>,
       << <<var_b, Negate(var_c)>> >> >>

\* the dictionaries given to the initial_conditions setter
InitialConditionDicts ==
    << <<>>,
       << <<var_a, Scalar(1)>> >>,
       << <<var_c, Scalar(1)>> >>,
       << <<cat_ns, Scalar(1)>> >>,
       << <<var_a, Vector(2, <<neg>>)>> >>,
       << <<var_c, Number(0)>> >> >>

\* the dictionaries {key: {side: equation}} given to the boundary_conditions
\* setter
Sides(l, r) ==
    <<[side |-> "left", eqn |-> l, typ |-> "Dirichlet"],
      [side |-> "right", eqn |-> r, typ |-> "Neumann"]>>
BoundaryConditionDicts ==
    << <<>>,
       << <<var_c, Sides(Scalar(1), Scalar(0))>> >>,
       << <<cat_ns, Sides(Scalar(1), Scalar(0))>> >>,
       << <<Gradient(var_c), Sides(Scalar(1), Scalar(0))>> >>,
       << <<var_n, Sides(Scalar(1), Number(0))>> >> >>

\* [h, d]: the dictionary of the template t, built by the caller
BuildGiven(h, t) ==
    BuildDict(h, [i \in DOMAIN t |->
                     [ka |-> NoAddr, kt |-> t[i][1], skey |-> "", eqn |-> t[i][2]]])

RECURSIVE BuildBcDict(_, _)
BuildBcDict(h, d) ==
    IF d = <<>> THEN [h |-> h, d |-> <<>>]
    ELSE LET k == Alloc(h, Head(d)[1], NoAddr)
             sd == BuildSides(k.h, Head(d)[2])
             rest == BuildBcDict(sd.h, Tail(d))
         IN [h |-> rest.h, d |-> <<[key |-> k.r, sides |-> sd.d]>> \o rest.d]

RECURSIVE ConvertNumbers(_, _)
\* _set_dict: "Convert any numbers to a pybamm.Scalar", in the dictionary
\* that was passed: [h, d]
ConvertNumbers(h, d) ==
    IF d = <<>> THEN [h |-> h, d |-> <<>>]
    ELSE LET e == Head(d)
             c == IF h[e.eqn].kind = "Number"
                  THEN MkLeaf(h, "Scalar", "scalar", <<>>, h[e.eqn].a, 0)
                  ELSE [h |-> h, r |-> e.eqn]
             rest == ConvertNumbers(c.h, Tail(d))
         IN [h |-> rest.h, d |-> <<[e EXCEPT !.eqn = c.r]>> \o rest.d]

\* the rhs, algebraic and initial_conditions setters,
\* "self._rhs = self._set_dict(rhs, "rhs")": [h, d, err]
SetDict(h, d) ==
    LET c == ConvertNumbers(h, d)
    IN [h |-> c.h, d |-> c.d, err |-> IF _set_dict(c.h, c.d) THEN "" ELSE "DomainError"]

RECURSIVE ConvertSides(_, _)
ConvertSides(h, sides) ==
    IF sides = <<>> THEN [h |-> h, d |-> <<>>]
    ELSE LET e == Head(sides)
             c == IF h[e.eqn].kind = "Number"
                  THEN MkLeaf(h, "Scalar", "scalar", <<>>, h[e.eqn].a, 0)
                  ELSE [h |-> h, r |-> e.eqn]
             rest == ConvertSides(c.h, Tail(sides))
         IN [h |-> rest.h, d |-> <<[e EXCEPT !.eqn = c.r]>> \o rest.d]

RECURSIVE SetBoundaryConditions(_, _)
\* the boundary_conditions setter: numbers become Scalars, no check: [h, d]
SetBoundaryConditions(h, d) ==
    IF d = <<>> THEN [h |-> h, d |-> <<>>]
    ELSE LET sd == ConvertSides(h, Head(d).sides)
             rest == SetBoundaryConditions(sd.h, Tail(d))
         IN [h |-> rest.h, d |-> <<[Head(d) EXCEPT !.sides = sd.d]>> \o rest.d]

\* BaseModel.check_and_combine_dict: dict1 after the call and the exception
\* ("assert len(ids1.intersection(ids2)) == 0"): [d, err]
check_and_combine_dict(h, dict1, dict2) ==
    LET ids1 == {Id(h, dict1[i].key) : i \in DOMAIN dict1}
        ids2 == {Id(h, dict2[i].key) : i \in DOMAIN dict2}
    IN IF ids1 \cap ids2 # {} THEN [d |-> dict1, err |-> "AssertionError"]
       ELSE [d |-> dict1 \o dict2, err |-> ""]

\* dict.update on dictionaries with string keys: a key that is there keeps
\* its place and gets the new value, a new key goes to the end
UpdateVariables(d1, d2) ==
    [i \in DOMAIN d1 |->
        IF \E j \in DOMAIN d2 : d2[j].skey = d1[i].skey
        THEN d2[CHOOSE j \in DOMAIN d2 : d2[j].skey = d1[i].skey]
        ELSE d1[i]]
        \o SelectSeq(d2, LAMBDA e : \A i \in DOMAIN d1 : d1[i].skey # e.skey)

\* an update that checks every dictionary before it combines any
updateAllOrNothing(h, model, submodel) ==
    LET r == check_and_combine_dict(h, model.rhs, submodel.rhs)
        a == check_and_combine_dict(h, model.algebraic, submodel.algebraic)
        i == check_and_combine_dict(h, model.initial_conditions,
                                    submodel.initial_conditions)
        b == check_and_combine_dict(h, model.boundary_conditions,
                                    submodel.boundary_conditions)
    IN IF \E c \in {r, a, i, b} : c.err # ""
       THEN [model |-> model, err |-> "AssertionError"]
       ELSE [model |-> [model EXCEPT !.rhs = r.d, !.algebraic = a.d,
                                     !.initial_conditions = i.d,
                                     !.boundary_conditions = b.d,
                                     !.variables = UpdateVariables(model.variables,
                                                                   submodel.variables)],
             err |-> ""]

\* BaseModel.update(submodel): the model after the call, with the
\* dictionaries combined until an assert failed: [model, err]
update(h, model, submodel) ==
    LET r == check_and_combine_dict(h, model.rhs, submodel.rhs)
        m1 == [model EXCEPT !.rhs = r.d]
        a == check_and_combine_dict(h, model.algebraic, submodel.algebraic)
        m2 == [m1 EXCEPT !.algebraic = a.d]
        i == check_and_combine_dict(h, model.initial_conditions,
                                    submodel.initial_conditions)
        m3 == [m2 EXCEPT !.initial_conditions = i.d]
        b == check_and_combine_dict(h, model.boundary_conditions,
                                    submodel.boundary_conditions)
        m4 == [m3 EXCEPT !.boundary_conditions = b.d]
    IN IF r.err # "" THEN [model |-> m1, err |-> r.err]
       ELSE IF a.err # "" THEN [model |-> m2, err |-> a.err]
       ELSE IF i.err # "" THEN [model |-> m3, err |-> i.err]
       ELSE IF b.err # "" THEN [model |-> m4, err |-> b.err]
       ELSE [model |-> [m4 EXCEPT !.variables =
                                      UpdateVariables(model.variables, submodel.variables)],
             err |-> ""]

\* the dictionaries a model class can hold after its constructor set them:
\* those the setters accept as they are
Accepts(ts) ==
    {i \in DOMAIN ts :
        LET b == BuildGiven(<<>>, ts[i])
        IN SetDict(b.h, b.d).h = b.h /\ SetDict(b.h, b.d).err = ""}
NoNumber(ts) ==
    {i \in DOMAIN ts :
        \A j \in DOMAIN ts[i] : \A k \in DOMAIN ts[i][j][2] :
            ts[i][j][2][k].eqn.kind # "Number"}

\* the variables dictionaries {name: expression} of the models
VariablesDicts ==
    << <<>>,
       <<[ka |-> NoAddr, kt |-> var_a, skey |-> "v", eqn |-> var_a]>>,
       <<[ka |-> NoAddr, kt |-> var_a, skey |-> "v", eqn |-> Negate(var_a)]>>,
       <<[ka |-> NoAddr, kt |-> var_a, skey |-> "u", eqn |-> var_b]>> >>

\* a model whose dictionaries are rhs, alg, ics, bc and vs
BuiltModel(rhs, alg, ics, bc, vs) ==
    [BaseModel EXCEPT !.rhs = rhs, !.algebraic = alg, !.initial_conditions = ics,
                      !.boundary_conditions = bc, !.variables = vs]

\* the submodels a model is updated with
Submodels == {<<4, 1, 3, 2, 3>>, <<2, 2, 2, 1, 4>>, <<1, 3, 1, 1, 1>>}

\* the equation a caller assigns into a dictionary it got from a getter
GivenItem == Negate(var_s)

\* the model and the submodel are built one dictionary after the other
ModelInit ==
    \E r \in Accepts(RhsDicts), a \in Accepts(AlgebraicDicts),
       i \in Accepts(InitialConditionDicts), b \in NoNumber(BoundaryConditionDicts),
       sub \in Submodels :
    \E rhs \in {BuildGiven(<<>>, RhsDicts[r])} :
    \E alg \in {BuildGiven(rhs.h, AlgebraicDicts[a])} :
    \E ics \in {BuildGiven(alg.h, InitialConditionDicts[i])} :
    \E bc \in {BuildBcDict(ics.h, BoundaryConditionDicts[b])} :
    \E vs \in {BuildDict(bc.h, VariablesDicts[2])} :
    \E srhs \in {BuildGiven(vs.h, RhsDicts[sub[1]])} :
    \E salg \in {BuildGiven(srhs.h, AlgebraicDicts[sub[2]])} :
    \E sics \in {BuildGiven(salg.h, InitialConditionDicts[sub[3]])} :
    \E sbc \in {BuildBcDict(sics.h, BoundaryConditionDicts[sub[4]])} :
    \E svs \in {BuildDict(sbc.h, VariablesDicts[sub[5]])} :
        /\ models = <<BuiltModel(rhs.d, alg.d, ics.d, bc.d, vs.d),
                      BuiltModel(srhs.d, salg.d, sics.d, sbc.d, svs.d)>>
        /\ given = BuiltModel(rhs.d, alg.d, ics.d, bc.d, vs.d)
        /\ heap = svs.h
        /\ mesh = EmptyDict
        /\ spatial_methods = EmptyDict
        /\ y_slices = EmptyDict
        /\ bcs = EmptyDict
        /\ inplace = FALSE
        /\ model_disc = NoAddr
        /\ pc = "model"
        /\ err = ""
        /\ prompted = FALSE
        /\ calls = 0
        /\ known_evals = EmptyDict
        /\ evaluated = <<>>
        /\ log = <<>>

\* a call on the model returned or raised
Called(name, model, h, e) ==
    /\ heap' = h
    /\ models' = [models EXCEPT ![1] = model]
    /\ pc' = IF e = "" THEN "done" ELSE "failed"
    /\ err' = e
    /\ log' = Append(log, name)
    /\ UNCHANGED <<mesh, spatial_methods, y_slices, bcs, given, inplace, model_disc, prompted>>

\* a setter called with the dictionary a caller built
Given(b) == SetDict(b.h, b.d)
GivenBcs(b) == SetBoundaryConditions(b.h, b.d)

\* "model.rhs = rhs"
SetRhs ==
    /\ pc = "model"
    /\ UNCHANGED <<calls, evaluations>>
    /\ \E i \in DOMAIN RhsDicts :
        LET r == Given(BuildGiven(heap, RhsDicts[i]))
        IN Called("rhs", IF r.err = "" THEN [models[1] EXCEPT !.rhs = r.d] ELSE models[1],
                  r.h, r.err)

\* "model.algebraic = algebraic"
SetAlgebraic ==
    /\ pc = "model"
    /\ UNCHANGED <<calls, evaluations>>
    /\ \E i \in DOMAIN AlgebraicDicts :
        LET r == Given(BuildGiven(heap, AlgebraicDicts[i]))
        IN Called("algebraic",
                  IF r.err = "" THEN [models[1] EXCEPT !.algebraic = r.d] ELSE models[1],
                  r.h, r.err)

\* "model.initial_conditions = initial_conditions"
SetInitialConditions ==
    /\ pc = "model"
    /\ UNCHANGED <<calls, evaluations>>
    /\ \E i \in DOMAIN InitialConditionDicts :
        LET r == Given(BuildGiven(heap, InitialConditionDicts[i]))
        IN Called("initial_conditions",
                  IF r.err = "" THEN [models[1] EXCEPT !.initial_conditions = r.d]
                  ELSE models[1],
                  r.h, r.err)

\* "model.boundary_conditions = boundary_conditions"
SetBoundaryConditionsCall ==
    /\ pc = "model"
    /\ UNCHANGED <<calls, evaluations>>
    /\ \E i \in DOMAIN BoundaryConditionDicts :
        LET r == GivenBcs(BuildBcDict(heap, BoundaryConditionDicts[i]))
        IN Called("boundary_conditions", [models[1] EXCEPT !.boundary_conditions = r.d],
                  r.h, "")

\* "submodel.rhs[key] = equation" on the dictionary the getter hands out
RhsItemAssignment ==
    /\ pc = "model"
    /\ UNCHANGED <<calls, evaluations>>
    /\ log = <<>>
    /\ models[2].rhs # <<>>
    /\ heap' = Alloc(heap, GivenItem, NoAddr).h
    /\ models' = [models EXCEPT ![2].rhs[1].eqn = Alloc(heap, GivenItem, NoAddr).r]
    /\ log' = <<"rhs[key]">>
    /\ UNCHANGED <<mesh, spatial_methods, y_slices, bcs, given, inplace, model_disc,
                   pc, err, prompted>>

\* "model.update(submodel)"
Update ==
    /\ pc = "model"
    /\ UNCHANGED <<calls, evaluations>>
    /\ Called("update", update(heap, models[1], models[2]).model, heap,
              update(heap, models[1], models[2]).err)

\* "model.check_well_posedness()"; err is the message of the ModelError
CheckWellPosedness ==
    /\ pc = "model"
    /\ UNCHANGED <<calls, evaluations>>
    /\ Called("check_well_posedness", models[1], heap, check_well_posedness(heap, models[1]))

ModelNext ==
    \/ SetRhs
    \/ SetAlgebraic
    \/ SetInitialConditions
    \/ SetBoundaryConditionsCall
    \/ RhsItemAssignment
    \/ Update
    \/ CheckWellPosedness

ModelSpec == ModelInit /\ [][ModelNext]_vars

(***************************************************************************)
(* check_well_posedness on the models the model classes build              *)
(***************************************************************************)
\* check_well_posedness was called on models[1] and returned or raised
Checked == pc \in {"done", "failed"} /\ log[Len(log)] = "check_well_posedness"

\* the identities of the variables that occur in the tree of x
VariablesInside(x) ==
    {Id(heap, y) : y \in {n \in Nodes(heap, x) : heap[n].kind = "Variable"}}
KeyIdentities(d) == UNION {VariablesInside(d[i].key) : i \in DOMAIN d}
RightHandSides == Equations(models[1].rhs) \cup Equations(models[1].algebraic)
SharedKeyIdentities ==
    KeyIdentities(models[1].rhs) \cap KeyIdentities(models[1].algebraic)

\* C11: check_well_posedness raises "model is overdetermined (repeated
\* keys)" for every model where some variable identity occurs in a key of
\* rhs and in a key of algebraic, a concatenation key counting for the
\* variables inside it, and never raises it when the two sets of key
\* identities are disjoint.
C11_RepeatedKeysRejected == Checked => (err = RepeatedKeys <=> SharedKeyIdentities # {})

\* a model was rejected for a variable that is a key of algebraic and lies
\* inside a concatenation key of rhs
C11_Witness ==
    /\ Checked
    /\ err = RepeatedKeys
    /\ \E i \in DOMAIN models[1].rhs :
          /\ heap[models[1].rhs[i].key].kind = "Concatenation"
          /\ VariablesInside(models[1].rhs[i].key) \cap SharedKeyIdentities # {}

\* the identities of the variables in the right-hand sides of rhs and
\* algebraic
RightHandSideIdentities == UNION {VariablesInside(e) : e \in RightHandSides}
AllKeyIdentities == KeyIdentities(models[1].rhs) \cup KeyIdentities(models[1].algebraic)

\* the two checks for an overdetermined model pass
NotOverdetermined ==
    /\ SharedKeyIdentities = {}
    /\ KeyIdentities(models[1].algebraic) \subseteq RightHandSideIdentities

\* C12: provided the overdetermined checks pass, check_well_posedness raises
\* "model is underdetermined (too many variables)" for every model where a
\* variable identity inside a right-hand side of rhs or algebraic is the
\* identity of no key of rhs or algebraic, and only for those.
C12_UnderdeterminedRejected ==
    Checked /\ NotOverdetermined
        => (err = TooManyVariables <=> ~(RightHandSideIdentities \subseteq AllKeyIdentities))

\* a model whose equation holds a variable that is no key was rejected, and
\* the model has an algebraic equation
C12_Witness ==
    /\ Checked
    /\ err = TooManyVariables
    /\ models[1].algebraic # <<>>

\* C13: check_well_posedness raises an overdetermined error for every model
\* with an algebraic key whose identity occurs in no right-hand side of rhs
\* or algebraic, "model is overdetermined (extra algebraic keys)" when no
\* key is repeated, and never raises that error for a key of rhs that is
\* absent from every right-hand side.
C13_ExtraAlgebraicKeysRejected ==
    Checked =>
        /\ ~(KeyIdentities(models[1].algebraic) \subseteq RightHandSideIdentities)
              => err \in {RepeatedKeys, ExtraAlgebraicKeys}
        /\ err = ExtraAlgebraicKeys
              <=> /\ SharedKeyIdentities = {}
                  /\ ~(KeyIdentities(models[1].algebraic) \subseteq RightHandSideIdentities)

\* a model with an rhs key that is absent from every right-hand side was
\* accepted
C13_Witness ==
    /\ Checked
    /\ err = ""
    /\ ~(KeyIdentities(models[1].rhs) \subseteq RightHandSideIdentities)

\* a model was rejected for an algebraic key that is a concatenation with a
\* variable no right-hand side holds
C13_RejectedWitness ==
    /\ Checked
    /\ err = ExtraAlgebraicKeys
    /\ \E i \in DOMAIN models[1].algebraic :
          heap[models[1].algebraic[i].key].kind = "Concatenation"

\* every key of rhs has an initial condition
InitialConditionsGiven ==
    \A i \in DOMAIN models[1].rhs :
        \E j \in DOMAIN models[1].initial_conditions :
            Id(heap, models[1].initial_conditions[j].key) = Id(heap, models[1].rhs[i].key)

\* the checks before the boundary conditions pass
EarlierChecksPass ==
    /\ NotOverdetermined
    /\ RightHandSideIdentities \subseteq AllKeyIdentities
    /\ InitialConditionsGiven

\* the entry's equation contains a gradient or a divergence
ContainsSpatialDerivative(e) ==
    \E y \in Nodes(heap, e.eqn) : heap[y].kind \in {"Gradient", "Divergence"}

\* the identity of the entry's key occurs inside a key of
\* boundary_conditions
InsideBoundaryConditionKey(e) ==
    \E j \in DOMAIN models[1].boundary_conditions :
        \E y \in Nodes(heap, models[1].boundary_conditions[j].key) :
            Id(heap, y) = Id(heap, e.key)

\* the entries of rhs and algebraic that lack a boundary condition
LackBoundaryCondition ==
    {e \in Range(models[1].rhs) \cup Range(models[1].algebraic) :
        ContainsSpatialDerivative(e) /\ ~InsideBoundaryConditionKey(e)}

C15_RejectedWitness ==
    /\ Checked
    /\ err = NoBoundaryCondition
    /\ models[1].boundary_conditions # <<>>

(***************************************************************************)
(* check_well_posedness after process_model                                *)
(***************************************************************************)
\* process_model returned the model it was given, discretised in place
DiscretisedInPlace == pc = "done" /\ inplace /\ model_disc = 1

\* C14: a model that passes check_well_posedness before process_model
\* still passes it after process_model has discretised it in place, with or
\* without algebraic equations.
C14_StillWellPosed ==
    DiscretisedInPlace /\ WellPosed => check_well_posedness(heap, models[1]) = ""

\* the same for the models without algebraic equations
C14_StillWellPosedWithoutAlgebraic ==
    DiscretisedInPlace /\ WellPosed /\ given.algebraic = <<>>
        => check_well_posedness(heap, models[1]) = ""

\* every well-posed model with an algebraic equation is rejected after it
\* was discretised in place: no variable is left in its equations
C14_AlgebraicRejected ==
    DiscretisedInPlace /\ WellPosed /\ given.algebraic # <<>>
        => /\ check_well_posedness(heap, models[1]) = ExtraAlgebraicKeys
           /\ vars_in_eqns(heap, models[1]) = {}

\* a well-posed model with an algebraic equation discretised in place
C14_AlgebraicInPlace == DiscretisedInPlace /\ WellPosed /\ given.algebraic # <<>>
C14_RhsOnlyInPlace == DiscretisedInPlace /\ WellPosed /\ given.algebraic = <<>>

(***************************************************************************)
(* The paths that put equations into a model                               *)
(***************************************************************************)
\* the call that was made on models[1] and has returned or raised
Returned(name) == pc = "done" /\ log[Len(log)] = name
Raised(name) == pc = "failed" /\ log[Len(log)] = name

\* some equation of d has a domain that is neither its key's nor empty
DomainMismatch(d) ==
    \E i \in DOMAIN d : /\ heap[d[i].eqn].domain # heap[d[i].key].domain
                        /\ heap[d[i].eqn].domain # <<>>

\* the dictionary of models[m] a setter or update writes
Stored(m, name) == models[m][name]
Setters == {"rhs", "algebraic", "initial_conditions"}

\* a setter that returned has stored a dictionary without a mismatch, a
\* setter that raised has raised DomainError and left the model as it was
SettersCheckDomains ==
    \A name \in Setters :
        /\ Returned(name) => ~DomainMismatch(Stored(1, name))
        /\ Raised(name) => err = "DomainError" /\ models[1] = given

\* update with a submodel that holds a mismatched equation raises
\* DomainError and leaves the dictionaries
UpdateChecksDomains ==
    /\ Returned("update") => \A name \in Setters : ~DomainMismatch(Stored(1, name))
    /\ Raised("update") /\ err = "DomainError" => models[1] = given

\* C16 as stated: the rhs, algebraic and initial_conditions setters and
\* update with a submodel raise the domain-mismatch error when some equation's
\* domain is neither its key's domain nor empty, and the model's stored
\* dictionaries are then the ones it held before the call.
C16_EveryPathChecksDomains == SettersCheckDomains /\ UpdateChecksDomains

\* update never raises DomainError: it raises AssertionError for a key the
\* model has already, with the dictionaries before that one combined, and
\* else appends the submodel's entries as they are
UpdateCombines ==
    /\ Raised("update") =>
          /\ err = "AssertionError"
          /\ \E name \in Setters \cup {"boundary_conditions"} :
                {Id(heap, k) : k \in Range(Keys(given[name]))}
                    \cap {Id(heap, k) : k \in Range(Keys(models[2][name]))} # {}
    /\ Returned("update") =>
          \A name \in Setters : Stored(1, name) = given[name] \o Stored(2, name)

\* C16, the setters only: the rhs, algebraic and initial_conditions setters
\* raise the domain-mismatch error when some equation's domain is neither
\* its key's domain nor empty, and the model is then as before the call;
\* update makes no domain check and adds the submodel's equations as they
\* are.
C16_SettersCheckDomains == SettersCheckDomains /\ UpdateCombines

\* a setter raised DomainError on a model that held equations
C16_Witness ==
    /\ \E name \in Setters : Raised(name) /\ err = "DomainError" /\ given[name] # <<>>
    /\ models[1] = given

\* update returned and the model holds an equation whose domain is not its
\* key's
C16_UpdateStoresMismatch == Returned("update") /\ DomainMismatch(models[1].rhs)

(***************************************************************************)
(* The stages of process_model                                             *)
(***************************************************************************)
Stages ==
    <<"set_variable_slices", "process_boundary_conditions", "process_initial_conditions",
      "process_rhs_and_algebraic", "variables", "events", "create_mass_matrix",
      "check_model">>

\* the stages completed are the first ones of the fixed order
InStageOrder == Len(log) <= Len(Stages) /\ log = SubSeq(Stages, 1, Len(log))

\* nothing of the model is rewritten before the slice map exists
NothingBeforeSlices ==
    ~Done("set_variable_slices") => models = <<given>> /\ y_slices = EmptyDict

\* a model with a mass matrix has its concatenated algebraic vector and its
\* concatenated initial conditions
MassMatrixLate ==
    \A m \in DOMAIN models :
        models[m].has_mass_matrix
            => /\ Done("process_initial_conditions") /\ Done("process_rhs_and_algebraic")
               /\ models[m].has_concatenated_algebraic
               /\ models[m].concatenated_initial_conditions # None

\* check_model has raised
FailedAtCheckModel == pc = "failed" /\ Len(log) = Len(Stages) - 1

\* the fields of the model given hold the discretised equations
Overwritten ==
    /\ models[1].has_mass_matrix
    /\ models[1].has_concatenated_algebraic
    /\ models[1].concatenated_initial_conditions # None
    /\ \A i \in DOMAIN given.rhs : models[1].rhs[i].eqn # given.rhs[i].eqn
    /\ \A i \in DOMAIN given.initial_conditions :
          models[1].initial_conditions[i].eqn # given.initial_conditions[i].eqn

\* C17: process_model performs its stages in the order slice map,
\* boundary-condition table, initial conditions, rhs and algebraic,
\* variables, events, mass matrix, consistency checks: nothing is rewritten
\* before the slice map exists, the mass matrix is assembled after the
\* concatenated algebraic vector and initial conditions exist, and the checks
\* run last, so that a model that fails them in in-place mode has its fields
\* overwritten.
C17_StagesInOrder ==
    /\ InStageOrder
    /\ NothingBeforeSlices
    /\ MassMatrixLate
    /\ FailedAtCheckModel /\ inplace => Overwritten
    /\ pc = "done" <=> log = Stages

\* a model discretised in place has failed the consistency checks
C17_Witness == FailedAtCheckModel /\ inplace /\ given.rhs # <<>>

(***************************************************************************)
(* The mass matrix                                                         *)
(***************************************************************************)
\* the diagonal blocks of the mass matrix of the discretised model
MassBlocks == models[model_disc].mass_matrix
MassMatrixSide == SumSeq([i \in DOMAIN MassBlocks |-> MassBlocks[i].size])
SpanLength(key) == KeySpan(key).stop - KeySpan(key).start

\* the mass matrix is as long as concatenated_initial_conditions
SideOfInitialConditions ==
    MassMatrixSide = models[model_disc].concatenated_initial_conditions.n

\* the first blocks are those of the keys of rhs in the order of their
\* slices, each as long as the slice of its key, and none is a zero block
RhsBlocksInSliceOrder ==
    /\ Len(MassBlocks) >= Len(given.rhs)
    /\ \E p \in Orderings(Len(given.rhs)) :
          /\ \A i \in 1..(Len(given.rhs) - 1) :
                SpanBefore(KeySpan(given.rhs[p[i]].key), KeySpan(given.rhs[p[i + 1]].key))
          /\ \A i \in DOMAIN given.rhs :
                /\ ~MassBlocks[i].zero
                /\ MassBlocks[i].size = SpanLength(given.rhs[p[i]].key)

\* the algebraic rows are one trailing zero block as long as the
\* concatenated algebraic vector
AlgebraicBlockTrailing ==
    IF given.algebraic = <<>> THEN Len(MassBlocks) = Len(given.rhs)
    ELSE /\ Len(MassBlocks) = Len(given.rhs) + 1
         /\ MassBlocks[Len(MassBlocks)].zero
         /\ MassBlocks[Len(MassBlocks)].size =
                ConcatLen(heap, heap[models[model_disc].concatenated_algebraic].children,
                          models[model_disc].concatenated_initial_conditions.n)

\* every key of rhs lies on domains with equally many submeshes, as
\* combine_submeshes pairs them
SubmeshesPaired ==
    \A i \in DOMAIN given.rhs :
        \A d \in Range(heap[given.rhs[i].key].domain) :
            d \in DOMAIN mesh /\ heap[given.rhs[i].key].domain[1] \in DOMAIN mesh
                => Len(mesh[d]) = Len(mesh[heap[given.rhs[i].key].domain[1]])

C18_SecondaryWitness ==
    /\ Accepted /\ SubmeshesPaired /\ DistinctUnknowns /\ NumberValuedInitialConditions
    /\ \E i \in DOMAIN given.rhs :
          /\ heap[given.rhs[i].key].domain # <<>>
          /\ Len(mesh[heap[given.rhs[i].key].domain[1]]) > 1

(***************************************************************************)
(* Shapes of the discretised equations                                     *)
(***************************************************************************)
\* the length of concatenated_initial_conditions of the discretised model
Y0 == models[model_disc].concatenated_initial_conditions.n

\* the discretised rhs of every key of rhs evaluates to an array of the
\* shape of the key's discretised initial condition
RhsShapesAgree ==
    \A i \in DOMAIN models[model_disc].rhs :
        \E j \in DOMAIN models[model_disc].initial_conditions :
            /\ Id(heap, models[model_disc].initial_conditions[j].key)
                  = Id(heap, models[model_disc].rhs[i].key)
            /\ Shape(heap, models[model_disc].rhs[i].eqn, Y0).t = "vec"
            /\ Shape(heap, models[model_disc].rhs[i].eqn, Y0)
                  = Shape(heap, models[model_disc].initial_conditions[j].eqn, NoY)

\* entry i of the rhs given is key: div(grad(key)) for a key over a finite
\* volume domain of the mesh that has a boundary-condition entry
DivGradWithBoundaryCondition(i) ==
    LET key == given.rhs[i].key
        eqn == given.rhs[i].eqn
    IN /\ heap[key].kind = "Variable" /\ heap[key].domain # <<>>
       /\ heap[eqn].kind = "Divergence"
       /\ heap[heap[eqn].children[1]].kind = "Gradient"
       /\ Id(heap, heap[heap[eqn].children[1]].children[1]) = Id(heap, key)
       /\ \E j \in DOMAIN given.boundary_conditions :
             Id(heap, given.boundary_conditions[j].key) = Id(heap, key)
       /\ InMesh(mesh, heap[key].domain)
       /\ heap[key].domain[1] \in DOMAIN spatial_methods
       /\ spatial_methods[heap[key].domain[1]] = "FiniteVolume"

\* process_rhs_and_algebraic has been called
RhsAttempted == Done("process_initial_conditions") /\ pc # "rhs"

\* C19: for every rhs key of a discretised model the discretised rhs and
\* initial condition evaluate to arrays of the same shape, and a key c with
\* rhs div(grad(c)) and a boundary-condition entry, on a finite volume
\* domain, is discretised to as many cell values as c's slice is long.
C19_RhsAndInitialConditionShapes ==
    /\ Accepted => RhsShapesAgree
    /\ \A i \in DOMAIN given.rhs :
          DivGradWithBoundaryCondition(i) /\ RhsAttempted
              => /\ Done("process_rhs_and_algebraic")
                 /\ Shape(heap, models[model_disc].rhs[i].eqn, Y0)
                       = Vec(SpanLength(given.rhs[i].key))

\* the first part alone: the shapes agree in every accepted model
C19_AcceptedShapesAgree == Accepted => RhsShapesAgree

\* every run on such a model fails in process_rhs_and_algebraic with the
\* TypeError of add_ghost_nodes
C19_DivGradFails ==
    \A i \in DOMAIN given.rhs :
        DivGradWithBoundaryCondition(i) /\ RhsAttempted /\ DistinctUnknowns
            => pc = "failed" /\ err = "TypeError" /\ ~Done("process_rhs_and_algebraic")

\* such a run
C19_DivGradAttempted ==
    RhsAttempted /\ \E i \in DOMAIN given.rhs : DivGradWithBoundaryCondition(i)

\* an accepted model with an rhs key over a domain
C19_AcceptedWitness ==
    Accepted /\ \E i \in DOMAIN given.rhs : heap[given.rhs[i].key].domain # <<>>

(***************************************************************************)
(* The spatial-method registry                                             *)
(***************************************************************************)
\* the domains "macroscale" stands for
MacroscaleDomains == {neg, sep, pos}

\* the symbols whose first domain entry is one of the macroscale domains
MacroscaleSymbols ==
    {a \in DOMAIN heap :
        heap[a].domain # <<>> /\ heap[a].domain[1] \in MacroscaleDomains}

DivGradOnFiniteVolume(i) ==
    LET key == given.rhs[i].key
        eqn == given.rhs[i].eqn
    IN /\ heap[key].kind = "Variable" /\ heap[key].domain # <<>>
       /\ heap[eqn].kind = "Divergence"
       /\ heap[heap[eqn].children[1]].kind = "Gradient"
       /\ Id(heap, heap[heap[eqn].children[1]].children[1]) = Id(heap, key)
       /\ InMesh(mesh, heap[key].domain)
       /\ heap[key].domain[1] \in DOMAIN spatial_methods
       /\ spatial_methods[heap[key].domain[1]] = "FiniteVolume"

\* the sides of the boundary-condition entry given for key that are of kind
\* Dirichlet
DirichletSides(key) ==
    {s \in {"left", "right"} :
        \E j \in DOMAIN given.boundary_conditions :
            /\ Id(heap, given.boundary_conditions[j].key) = Id(heap, key)
            /\ \E k \in DOMAIN given.boundary_conditions[j].sides :
                  /\ given.boundary_conditions[j].sides[k].side = s
                  /\ given.boundary_conditions[j].sides[k].typ = "Dirichlet"}

\* a side of the entry given for key is of kind Neumann
HasNeumannSide(key) ==
    \E j \in DOMAIN given.boundary_conditions :
        /\ Id(heap, given.boundary_conditions[j].key) = Id(heap, key)
        /\ \E k \in DOMAIN given.boundary_conditions[j].sides :
              given.boundary_conditions[j].sides[k].typ = "Neumann"

\* the operand of the discretised divergence of entry i: D @ N, or in the
\* spherical operator (1 / r ** 2) * (D @ (r_edges ** 2 * N))
DiscretisedGradient(i) ==
    LET out == models[model_disc].rhs[i].eqn
    IN IF heap[out].kind = "MatrixMultiplication" THEN heap[out].children[2]
       ELSE heap[heap[heap[out].children[2]].children[2]].children[2]

\* the points of the combined submesh of the domain of key
Points(key) == CombinedPts(mesh, heap[key].domain)

\* the discretised gradient of entry i is the gradient matrix on n points,
\* of n - 1 face values
GradientOn(i, n) ==
    /\ heap[DiscretisedGradient(i)].kind = "MatrixMultiplication"
    /\ heap[heap[DiscretisedGradient(i)].children[1]].kind = "Matrix"
    /\ heap[heap[DiscretisedGradient(i)].children[1]].a = n - 1
    /\ heap[heap[DiscretisedGradient(i)].children[1]].b = n

\* C21: the finite volume gradient adds a ghost value only on a side whose
\* boundary condition is of kind Dirichlet; on a Neumann side and for an
\* operand without boundary-condition entry no ghost node is added, and the
\* gradient of an operand without entry has n-1 face values.
C21_GhostOnlyOnDirichletSides ==
    \A i \in DOMAIN given.rhs :
        DivGradOnFiniteVolume(i) /\ RhsAttempted
            => /\ Done("process_rhs_and_algebraic")
               /\ GradientOn(i, Points(given.rhs[i].key)
                                   + Cardinality(DirichletSides(given.rhs[i].key)))

\* the part about operands without boundary-condition entry
C21_NoGhostWithoutEntry ==
    \A i \in DOMAIN given.rhs :
        DivGradOnFiniteVolume(i) /\ RhsAttempted /\ ~DivGradWithBoundaryCondition(i)
            => /\ Done("process_rhs_and_algebraic")
               /\ GradientOn(i, Points(given.rhs[i].key))
               /\ heap[heap[DiscretisedGradient(i)].children[2]].kind = "StateVector"
               /\ heap[heap[DiscretisedGradient(i)].children[2]].a
                     = KeySpan(given.rhs[i].key).start
               /\ heap[heap[DiscretisedGradient(i)].children[2]].b
                     = KeySpan(given.rhs[i].key).stop

\* a gradient without boundary-condition entry has been discretised
C21_NoEntryWitness ==
    \E i \in DOMAIN given.rhs :
        /\ DivGradOnFiniteVolume(i) /\ RhsAttempted
        /\ ~DivGradWithBoundaryCondition(i)

\* every gradient of an operand with a Neumann side fails in add_ghost_nodes
C21_NeumannSideFails ==
    \A i \in DOMAIN given.rhs :
        DivGradOnFiniteVolume(i) /\ RhsAttempted /\ HasNeumannSide(given.rhs[i].key)
            => pc = "failed" /\ err = "TypeError" /\ ~Done("process_rhs_and_algebraic")

\* such a gradient has been attempted
C21_NeumannSideAttempted ==
    \E i \in DOMAIN given.rhs :
        DivGradOnFiniteVolume(i) /\ RhsAttempted /\ HasNeumannSide(given.rhs[i].key)

(***************************************************************************)
(* The spherical correction of the finite volume divergence                *)
(***************************************************************************)
\* x is (1 / (r ** 2)) * (D @ ((r_edges ** 2) * N))
IsSphericalOperator(x) ==
    /\ heap[x].kind = "Multiplication"
    /\ heap[heap[x].children[1]].kind = "Division"
    /\ heap[heap[heap[x].children[1]].children[2]].kind = "Power"
    /\ heap[heap[x].children[2]].kind = "MatrixMultiplication"
    /\ heap[heap[heap[x].children[2]].children[1]].kind = "Matrix"
    /\ heap[heap[heap[x].children[2]].children[2]].kind = "Multiplication"
    /\ heap[heap[heap[heap[x].children[2]].children[2]].children[1]].kind = "Power"

\* x is D @ N
IsPlainOperator(x) ==
    /\ heap[x].kind = "MatrixMultiplication"
    /\ heap[heap[x].children[1]].kind = "Matrix"

ParticleDomains == {part, ppart}

\* the divergence of entry i of rhs has been discretised
DivergenceDiscretised(i) ==
    /\ DivGradOnFiniteVolume(i)
    /\ ~DivGradWithBoundaryCondition(i)
    /\ Done("process_rhs_and_algebraic")

\* C22: the finite volume divergence applies the spherical correction
\* (1/r^2) * D(r_edge^2 * N) for every operand whose first domain entry is
\* "negative particle" or "positive particle", and the plain operator D for
\* every other domain.
C22_SphericalOnParticleDomains ==
    \A i \in DOMAIN given.rhs :
        DivergenceDiscretised(i)
            => IF heap[given.rhs[i].key].domain[1] \in ParticleDomains
               THEN IsSphericalOperator(models[model_disc].rhs[i].eqn)
               ELSE IsPlainOperator(models[model_disc].rhs[i].eqn)

\* the correction is applied on the negative particle, and only there
C22_SphericalOnNegativeParticle ==
    \A i \in DOMAIN given.rhs :
        DivergenceDiscretised(i)
            => IF part \in Range(heap[given.rhs[i].key].domain)
               THEN IsSphericalOperator(models[model_disc].rhs[i].eqn)
               ELSE IsPlainOperator(models[model_disc].rhs[i].eqn)

\* a divergence over the negative particle has been discretised
C22_NegativeParticleWitness ==
    \E i \in DOMAIN given.rhs :
        DivergenceDiscretised(i) /\ heap[given.rhs[i].key].domain[1] = part

\* the divergence over the positive particle is the plain operator
C22_PositiveParticlePlain ==
    \A i \in DOMAIN given.rhs :
        DivergenceDiscretised(i) /\ heap[given.rhs[i].key].domain[1] = ppart
            => IsPlainOperator(models[model_disc].rhs[i].eqn)

\* a divergence over the positive particle has been discretised
C22_PositiveParticleWitness ==
    \E i \in DOMAIN given.rhs :
        DivergenceDiscretised(i) /\ heap[given.rhs[i].key].domain[1] = ppart

(***************************************************************************)
(* Node-to-edge averaging in binary operators                              *)
(***************************************************************************)
\* Symbol.has_gradient_and_not_divergence
has_gradient_and_not_divergence(h, x) ==
    /\ \E y \in Nodes(h, x) : h[y].kind = "Gradient"
    /\ \A y \in Nodes(h, x) : h[y].kind # "Divergence"

\* entry i of the variables given is a binary operator with a domain whose
\* first entry is a finite volume domain
BinaryOnFiniteVolume(i) ==
    LET x == given.variables[i].eqn
    IN /\ heap[x].kind \in BinaryKinds
       /\ heap[x].domain # <<>>
       /\ heap[x].domain[1] \in DOMAIN spatial_methods
       /\ spatial_methods[heap[x].domain[1]] = "FiniteVolume"

\* exactly one operand of entry i has a gradient but not a divergence
OneSideHasGradient(i) ==
    LET x == given.variables[i].eqn
    IN has_gradient_and_not_divergence(heap, heap[x].children[1])
          # has_gradient_and_not_divergence(heap, heap[x].children[2])

\* operand k of the discretised entry i is a node-to-edge mean
Averaged(i, k) ==
    heap[heap[models[model_disc].variables[i].eqn].children[k]].kind = "NodeToEdge"

\* C23: when process_symbol rewrites a binary operator with a domain under
\* the finite volume method and exactly one operand has a gradient but not
\* a divergence, the other operand is wrapped in the node-to-edge mean;
\* when both or neither have it, no averaging node is inserted.
C23_AveragingOnOneSide ==
    \A i \in DOMAIN given.variables :
        BinaryOnFiniteVolume(i) /\ Done("variables")
            => LET x == given.variables[i].eqn
               IN \A k \in 1..2 :
                     Averaged(i, k)
                        <=> /\ OneSideHasGradient(i)
                            /\ ~has_gradient_and_not_divergence(heap, heap[x].children[k])

\* the binary operator is rebuilt over the discretised operands without any
\* averaging node
C23_NoAveraging ==
    \A i \in DOMAIN given.variables :
        BinaryOnFiniteVolume(i) /\ Done("variables")
            => /\ heap[models[model_disc].variables[i].eqn].kind = heap[given.variables[i].eqn].kind
               /\ ~Averaged(i, 1) /\ ~Averaged(i, 2)

\* a binary operator with a gradient on one side only has been discretised
C23_OneSideWitness ==
    \E i \in DOMAIN given.variables :
        BinaryOnFiniteVolume(i) /\ Done("variables") /\ OneSideHasGradient(i)

\* a binary operator with a gradient on both sides or on neither has been
\* discretised
C23_BothOrNeitherWitness ==
    \E i \in DOMAIN given.variables :
        BinaryOnFiniteVolume(i) /\ Done("variables") /\ ~OneSideHasGradient(i)

(***************************************************************************)
(* Interactive calls                                                       *)
(***************************************************************************)
\* a Concatenation is among the expressions of the model given
ConcatenationGiven ==
    \E x \in DOMAIN heap :
        /\ heap[x].kind = "Concatenation"
        /\ \/ \E i \in DOMAIN given.rhs : x \in Nodes(heap, given.rhs[i].eqn)
           \/ \E i \in DOMAIN given.algebraic : x \in Nodes(heap, given.algebraic[i].eqn)
           \/ \E i \in DOMAIN given.initial_conditions :
                 x \in Nodes(heap, given.initial_conditions[i].eqn)
           \/ \E i \in DOMAIN given.variables : x \in Nodes(heap, given.variables[i].eqn)

\* C24: process_symbol returns or raises on every symbol tree without
\* performing I/O or waiting on anything external, the concatenation rule
\* that delegates to domain_concatenation included: no interactive or
\* blocking call is made.
C24_NoInteractiveCall == prompted = FALSE

\* only the concatenation rule opens a prompt
C24_PromptOnlyInConcatenation == prompted => ConcatenationGiven

\* a model with a Concatenation in its equations whose discretisation
\* completed: domain_concatenation has returned, and has opened its prompts
C24_ConcatenationPrompts ==
    ConcatenationGiven /\ Accepted => prompted

\* such a model has been discretised
C24_ConcatenationWitness == ConcatenationGiven /\ Accepted

\* a model without Concatenation has been discretised
C24_NoConcatenationWitness == ~ConcatenationGiven /\ Accepted /\ ~prompted

(***************************************************************************)
(* Numeric evaluation and the solvers                                      *)
(*                                                                         *)
(* A value is a sequence of integers (a column vector; a number is a       *)
(* sequence of length one).  A known_evals dictionary maps the id of a     *)
(* node to its entry [v, t, y]: the value stored, and the (t, y) it was    *)
(* computed at.                                                            *)
(***************************************************************************)
\* largest number of evaluations in one behaviour
MaxEvaluations == 2

EvalReturned(v, ke) == [v |-> v, ke |-> ke, err |-> ""]
EvalRaised(e, ke) == [v |-> <<>>, ke |-> ke, err |-> e]

Pick(v, i) == IF Len(v) = 1 THEN v[1] ELSE v[i]

\* the operation of a BinaryOperator on two evaluated children
BinaryValue(kind, l, r) ==
    [i \in 1..Max(Len(l), Len(r)) |->
        CASE kind = "Addition" -> Pick(l, i) + Pick(r, i)
          [] kind = "Subtraction" -> Pick(l, i) - Pick(r, i)
          [] OTHER -> Pick(l, i) * Pick(r, i)]

\* _unary_evaluate of Negate, AbsoluteValue and Function (whose func doubles
\* its argument)
_unary_evaluate(kind, child) ==
    [i \in DOMAIN child |->
        CASE kind = "Negate" -> 0 - child[i]
          [] kind = "AbsoluteValue" -> IF child[i] < 0 THEN 0 - child[i] ELSE child[i]
          [] OTHER -> 2 * child[i]]

RECURSIVE Flatten(_)
Flatten(vs) == IF vs = <<>> THEN <<>> ELSE Head(vs) \o Flatten(Tail(vs))

RECURSIVE evaluate(_, _, _, _)
\* evaluate(t, y): known_evals is None
evaluate(h, x, t, y) ==
    LET n == h[x]
    IN CASE n.kind = "Scalar" -> <<n.a>>
         [] n.kind = "Time" -> <<t>>
         [] n.kind = "StateVector" -> SubSeq(y, n.a + 1, n.b)
         [] n.kind \in BinaryKinds ->
                BinaryValue(n.kind, evaluate(h, n.children[1], t, y),
                            evaluate(h, n.children[2], t, y))
         [] n.kind \in ConcatenationKinds ->
                Flatten([i \in DOMAIN n.children |-> evaluate(h, n.children[i], t, y)])
         [] OTHER -> _unary_evaluate(n.kind, evaluate(h, n.children[1], t, y))

\* known_evals[self.id] = value
Store(ke, id, v, t, y) == Put(ke, id, [v |-> v, t |-> t, y |-> y])

RECURSIVE evaluate_known_evals(_, _, _, _, _)
RECURSIVE EvaluateChildren(_, _, _, _, _)
\* the children evaluated from left to right, each with the dictionary the
\* one before returned: [vs, ke, err]
EvaluateChildren(h, kids, t, y, ke) ==
    IF kids = <<>> THEN [vs |-> <<>>, ke |-> ke, err |-> ""]
    ELSE LET first == evaluate_known_evals(h, Head(kids), t, y, ke)
         IN IF first.err # "" THEN [vs |-> <<>>, ke |-> first.ke, err |-> first.err]
            ELSE LET rest == EvaluateChildren(h, Tail(kids), t, y, first.ke)
                 IN [rest EXCEPT !.vs = <<first.v>> \o rest.vs]

\* evaluate(t, y, known_evals) with a dictionary.  UnaryOperator.evaluate
\* is the OTHER case; Time.evaluate(self, t, y=None) takes no third argument
evaluate_known_evals(h, x, t, y, ke) ==
    LET n == h[x]
        id == Id(h, x)
    IN CASE n.kind = "Time" -> EvalRaised("TypeError", ke)
         [] id \in DOMAIN ke -> EvalReturned(ke[id].v, ke)
         [] n.kind \in {"Scalar", "StateVector"} ->
                EvalReturned(evaluate(h, x, t, y), Store(ke, id, evaluate(h, x, t, y), t, y))
         [] n.kind \in BinaryKinds \cup ConcatenationKinds ->
                LET cs == EvaluateChildren(h, n.children, t, y, ke)
                    v == IF n.kind \in BinaryKinds
                         THEN BinaryValue(n.kind, cs.vs[1], cs.vs[2])
                         ELSE Flatten(cs.vs)
                IN IF cs.err # "" THEN EvalRaised(cs.err, cs.ke)
                   ELSE EvalReturned(v, Store(cs.ke, id, v, t, y))
         [] OTHER ->
                LET child == evaluate_known_evals(h, n.children[1], t, y, ke)
                IN IF child.err # "" THEN child
                   ELSE EvalReturned(_unary_evaluate(n.kind, child.v),
                                  Store(child.ke, id, _unary_evaluate(n.kind, child.v),
                                        t, y))

(***************************************************************************)
(* The models handed to the solvers                                        *)
(***************************************************************************)
StateVector(start, stop) == T("StateVector", "y", <<>>, <<>>, start, stop, "")
NumpyConcatenation(ts) == T("NumpyConcatenation", "numpy concatenation", <<>>, ts, 0, 0, "")
Double(t) == Unary("Function", "function (double)", t)

\* <<concatenated_rhs, concatenated_algebraic>>
Systems ==
    <<  <<NumpyConcatenation(<<Negate(StateVector(0, 1))>>),
          NumpyConcatenation(<<AbsoluteValue(Binary("Subtraction", StateVector(1, 2),
                                                    Scalar(1)))>>)>>,
        <<NumpyConcatenation(<<Negate(StateVector(0, 1)), Negate(StateVector(0, 1))>>),
          NumpyConcatenation(<<Negate(StateVector(0, 1))>>)>>,
        <<NumpyConcatenation(<<Negate(Time)>>),
          NumpyConcatenation(<<StateVector(1, 2)>>)>>,
        <<NumpyConcatenation(<<Double(StateVector(0, 1))>>),
          NumpyConcatenation(<<Negate(Double(StateVector(0, 1)))>>)>>,
        <<NumpyConcatenation(<<Binary("Multiplication", StateVector(0, 2),
                                      Negate(StateVector(0, 1)))>>),
          NumpyConcatenation(<<>>)>>  >>

Times == {0, 1}
StateVectors == {<<0, 1>>, <<2, 1>>, <<1, 3>>}

SolverInit ==
    \E i \in DOMAIN Systems :
    \E rhs \in {Alloc(<<>>, Systems[i][1], NoAddr)} :
    \E alg \in {Alloc(rhs.h, Systems[i][2], NoAddr)} :
        /\ heap = alg.h
        /\ models = <<[BaseModel EXCEPT !.concatenated_rhs = rhs.r,
                                        !.concatenated_algebraic = alg.r,
                                        !.has_concatenated_algebraic = TRUE]>>
        /\ given = models[1]
        /\ mesh = EmptyDict
        /\ spatial_methods = EmptyDict
        /\ y_slices = EmptyDict
        /\ bcs = EmptyDict
        /\ inplace = TRUE
        /\ model_disc = 1
        /\ pc = "solve"
        /\ err = ""
        /\ prompted = FALSE
        /\ log = <<>>
        /\ calls = 0
        /\ known_evals = EmptyDict
        /\ evaluated = <<>>

\* the record of one evaluation
Evaluation(call, x, t, y, start, r) ==
    [call |-> call, node |-> x, t |-> t, y |-> y, start |-> start, v |-> r.v,
     err |-> r.err, cache |-> r.ke]

\* the evaluations es have been made, the last of them returning r
Evaluated(es, r) ==
    /\ evaluated' = evaluated \o es
    /\ known_evals' = r.ke
    /\ err' = r.err
    /\ UNCHANGED <<heap, mesh, spatial_methods, y_slices, bcs, models, given, inplace,
                   model_disc, pc, prompted, log, calls>>

\* symbol.evaluate(t, y)
Evaluate ==
    /\ pc = "solve"
    /\ Len(evaluated) < MaxEvaluations
    /\ \E x \in DOMAIN heap, t \in Times, y \in StateVectors :
          LET r == EvalReturned(evaluate(heap, x, t, y), EmptyDict)
          IN Evaluated(<<Evaluation("evaluate", x, t, y, EmptyDict, r)>>, r)

\* symbol.evaluate(t, y, known_evals={}) on a unary node
EvaluateKnownEvals ==
    /\ pc = "solve"
    /\ Len(evaluated) < MaxEvaluations
    /\ \E x \in DOMAIN heap, t \in Times, y \in StateVectors :
          /\ IsUnaryOperator(heap[x])
          /\ LET r == evaluate_known_evals(heap, x, t, y, EmptyDict)
             IN Evaluated(<<Evaluation("evaluate known_evals", x, t, y, EmptyDict, r)>>, r)

\* DaeSolver.solve.residuals(t, y, ydot)
Residuals ==
    /\ pc = "solve"
    /\ Len(evaluated) < MaxEvaluations
    /\ \E t \in Times, y \in StateVectors :
          LET rhs_eval == evaluate_known_evals(heap, models[1].concatenated_rhs, t, y,
                                               EmptyDict)
              alg_eval == evaluate_known_evals(heap, models[1].concatenated_algebraic, t, y,
                                               rhs_eval.ke)
              first == Evaluation("residuals rhs", models[1].concatenated_rhs, t, y,
                                  EmptyDict, rhs_eval)
          IN IF rhs_eval.err # "" THEN Evaluated(<<first>>, rhs_eval)
             ELSE Evaluated(<<first, Evaluation("residuals algebraic",
                                                models[1].concatenated_algebraic, t, y,
                                                rhs_eval.ke, alg_eval)>>, alg_eval)

\* the closures rhs(t, y) and algebraic(t, y) of DaeSolver.set_up, and dydt
\* of OdeSolver.solve
RhsOrAlgebraic ==
    /\ pc = "solve"
    /\ Len(evaluated) < MaxEvaluations
    /\ \E t \in Times, y \in StateVectors, name \in {"rhs", "algebraic"} :
          LET x == IF name = "rhs" THEN models[1].concatenated_rhs
                   ELSE models[1].concatenated_algebraic
              r == evaluate_known_evals(heap, x, t, y, EmptyDict)
          IN Evaluated(<<Evaluation(name, x, t, y, EmptyDict, r)>>, r)

\* np.split(y0_guess, [len_rhs])
Split(y0_guess, len_rhs) ==
    <<SubSeq(y0_guess, 1, Min(len_rhs, Len(y0_guess))),
      SubSeq(y0_guess, Min(len_rhs, Len(y0_guess)) + 1, Len(y0_guess))>>

\* the vectors optimize.root may return for a guess of length n
Roots(n) == [1..n -> {0, 5}]

\* DaeSolver.calculate_consistent_initial_conditions: [v, err]
calculate_consistent_initial_conditions(len_rhs, y0_guess, x, success) ==
    IF success THEN [v |-> Split(y0_guess, len_rhs)[1] \o x, err |-> ""]
    ELSE [v |-> <<>>, err |-> "SolverError"]

CalculateConsistentInitialConditions ==
    /\ pc = "solve"
    /\ Len(evaluated) < MaxEvaluations
    /\ \E y0_guess \in StateVectors, success \in BOOLEAN :
          LET rhs == evaluate_known_evals(heap, models[1].concatenated_rhs, 0, y0_guess,
                                          EmptyDict)
              first == Evaluation("rhs", models[1].concatenated_rhs, 0, y0_guess,
                                  EmptyDict, rhs)
          IN IF rhs.err # "" THEN Evaluated(<<first>>, rhs)
             ELSE \E x \in Roots(Len(Split(y0_guess, Len(rhs.v))[2])) :
                     \* root_fun(y0_alg) at the vector optimize.root returns
                     LET y0 == Split(y0_guess, Len(rhs.v))[1] \o x
                         out == evaluate_known_evals(heap, models[1].concatenated_algebraic,
                                                     0, y0, EmptyDict)
                         second == Evaluation("algebraic", models[1].concatenated_algebraic,
                                              0, y0, EmptyDict, out)
                         r == calculate_consistent_initial_conditions(
                                  Len(rhs.v), y0_guess, x, success)
                     IN IF out.err # "" THEN Evaluated(<<first, second>>, out)
                        ELSE Evaluated(<<first, second,
                                         [call |-> "calculate_consistent_initial_conditions",
                                          node |-> NoAddr, t |-> 0, y |-> y0_guess,
                                          start |-> EmptyDict, v |-> r.v, err |-> r.err,
                                          cache |-> EmptyDict]>>,
                                       [v |-> r.v, err |-> r.err, ke |-> out.ke])

SolverNext ==
    \/ Evaluate
    \/ EvaluateKnownEvals
    \/ Residuals
    \/ RhsOrAlgebraic
    \/ CalculateConsistentInitialConditions

SolverSpec == SolverInit /\ [][SolverNext]_vars

(***************************************************************************)
(* Properties of evaluation with known_evals                               *)
(***************************************************************************)
\* the evaluations made with a known_evals dictionary
WithKnownEvals ==
    {k \in DOMAIN evaluated :
        evaluated[k].call \notin {"evaluate", "calculate_consistent_initial_conditions"}}

\* evaluation k returned what evaluate(t, y) returns
SameAsWithout(k) ==
    /\ evaluated[k].err = ""
    /\ evaluated[k].v = evaluate(heap, evaluated[k].node, evaluated[k].t, evaluated[k].y)

\* every entry of the dictionary evaluation k returned is the value of a
\* node with that id at the (t, y) of the evaluation
EntriesAreValues(k) ==
    \A id \in DOMAIN evaluated[k].cache :
        \E x \in DOMAIN heap :
            /\ Id(heap, x) = id
            /\ evaluated[k].cache[id].v = evaluate(heap, x, evaluated[k].t, evaluated[k].y)

\* evaluation k started from a dictionary without entry from another (t, y)
StartedFresh(k) ==
    \A id \in DOMAIN evaluated[k].start :
        /\ evaluated[k].start[id].t = evaluated[k].t
        /\ evaluated[k].start[id].y = evaluated[k].y

\* C25: evaluating with memoization gives the value evaluating without
\* gives: for every unary node and every (t, y), evaluate(t, y,
\* known_evals={}) returns what evaluate(t, y) returns, the entry written
\* for a node is its value at that (t, y), and every evaluation of the
\* solvers starts from a cache without entry computed at another (t, y).
C25_MemoizationPreservesValues ==
    \A k \in WithKnownEvals :
        /\ IsUnaryOperator(heap[evaluated[k].node]) /\ evaluated[k].start = EmptyDict
              => SameAsWithout(k)
        /\ EntriesAreValues(k)
        /\ StartedFresh(k)

\* Time is below node x
OverTime(x) == \E z \in Nodes(heap, x) : heap[z].kind = "Time"

\* the claim for the trees without Time
C25_PreservedWithoutTime ==
    \A k \in WithKnownEvals :
        /\ ~OverTime(evaluated[k].node) => SameAsWithout(k)
        /\ EntriesAreValues(k)
        /\ StartedFresh(k)

\* with a dictionary, the evaluation of a unary node over Time raises
C25_TimeRaises ==
    \A k \in WithKnownEvals :
        OverTime(evaluated[k].node) /\ evaluated[k].start = EmptyDict
            => evaluated[k].err = "TypeError"

\* a unary node over Time has been evaluated with known_evals={}, and
\* without
C25_TimeWitness ==
    \E k \in WithKnownEvals, j \in DOMAIN evaluated :
        /\ IsUnaryOperator(heap[evaluated[k].node]) /\ OverTime(evaluated[k].node)
        /\ evaluated[j].call = "evaluate" /\ evaluated[j].node = evaluated[k].node
        /\ evaluated[j].err = ""

\* the algebraic part of the residuals has reused an entry of the rhs part
C25_ReuseWitness ==
    \E k \in WithKnownEvals :
        /\ evaluated[k].call = "residuals algebraic"
        /\ evaluated[k].start # EmptyDict
        /\ \E id \in DOMAIN evaluated[k].start :
              \E x \in Nodes(heap, evaluated[k].node) : Id(heap, x) = id

(***************************************************************************)
(* Boundary values under the finite volume method                          *)
(***************************************************************************)
\* entry i of the variables given is the boundary value of a key of the
\* model over a finite volume domain of the mesh
BoundaryValueOnFiniteVolume(i) ==
    LET x == given.variables[i].eqn
        child == heap[x].children[1]
    IN /\ heap[x].kind = "BoundaryValue"
       /\ heap[child].kind = "Variable" /\ heap[child].domain # <<>>
       /\ Id(heap, child) \in DOMAIN y_slices
       /\ InMesh(mesh, heap[child].domain)
       /\ heap[child].domain[1] \in DOMAIN spatial_methods
       /\ spatial_methods[heap[child].domain[1]] = "FiniteVolume"

\* x is the StateVector of the cell at offset k from the start (k >= 0) or
\* from the stop (k < 0) of slice s
IsCell(x, s, k) ==
    /\ heap[x].kind = "StateVector"
    /\ heap[x].a = (IF k >= 0 THEN s.start + k ELSE s.stop + k)
    /\ heap[x].b = heap[x].a + 1

\* x is outer + (outer - inner) / 2 on the cells at offsets outer and inner
IsExtrapolation(x, s, outer, inner) ==
    /\ heap[x].kind = "Addition"
    /\ IsCell(heap[x].children[1], s, outer)
    /\ LET q == heap[x].children[2]
       IN /\ heap[q].kind = "Division"
          /\ heap[heap[q].children[2]].kind = "Scalar" /\ heap[heap[q].children[2]].a = 2
          /\ LET d == heap[q].children[1]
             IN /\ heap[d].kind = "Subtraction"
                /\ IsCell(heap[d].children[1], s, outer)
                /\ IsCell(heap[d].children[2], s, inner)

\* x selects one cell of the discretised variable: bv_vector @ child
IsCellSelection(x, s) ==
    /\ heap[x].kind = "MatrixMultiplication"
    /\ heap[heap[x].children[1]].kind = "Matrix"
    /\ heap[heap[x].children[1]].a = 1
    /\ heap[heap[x].children[2]].kind = "StateVector"
    /\ heap[heap[x].children[2]].a = s.start
    /\ heap[heap[x].children[2]].b = s.stop

\* C26: under the finite volume method, process_symbol on a right
\* boundary-value node over a discretised variable yields the linear
\* extrapolation last + (last - penultimate)/2 of the variable's last two
\* cell values, and the mirrored formula on the left, not the value of the
\* boundary cell itself.
C26_BoundaryValueExtrapolated ==
    \A i \in DOMAIN given.variables :
        BoundaryValueOnFiniteVolume(i) /\ Done("variables")
            => LET x == given.variables[i].eqn
                   s == y_slices[Id(heap, heap[x].children[1])]
               IN IF heap[x].side = "right"
                  THEN IsExtrapolation(models[model_disc].variables[i].eqn, s, -1, -2)
                  ELSE IsExtrapolation(models[model_disc].variables[i].eqn, s, 0, 1)

\* the boundary value is the selection of one cell of the variable
C26_BoundaryValueIsCellValue ==
    \A i \in DOMAIN given.variables :
        BoundaryValueOnFiniteVolume(i) /\ Done("variables")
            => IsCellSelection(models[model_disc].variables[i].eqn,
                               y_slices[Id(heap, heap[given.variables[i].eqn].children[1])])

\* a right boundary value has been discretised
C26_RightWitness ==
    \E i \in DOMAIN given.variables :
        /\ BoundaryValueOnFiniteVolume(i) /\ Done("variables")
        /\ heap[given.variables[i].eqn].side = "right"

\* a left boundary value has been discretised
C26_LeftWitness ==
    \E i \in DOMAIN given.variables :
        /\ BoundaryValueOnFiniteVolume(i) /\ Done("variables")
        /\ heap[given.variables[i].eqn].side = "left"

(***************************************************************************)
(* The layout of the state vector                                          *)
(***************************************************************************)
\* the ids of the unknowns of the keys of a dictionary given
UnknownIds(d) ==
    {Id(heap, x) : x \in Range(UnpackVariables(heap, Keys(d)))}

\* every slice of an unknown of rhs ends where or before every slice of an
\* unknown of algebraic starts
DifferentialBeforeAlgebraic ==
    \A r \in UnknownIds(given.rhs), a \in UnknownIds(given.algebraic) :
        y_slices[r].stop <= y_slices[a].start

\* C27: in the slice map built by process_model every rhs unknown's slice
\* lies entirely before every algebraic unknown's slice, so that the state
\* vector is [differential unknowns | algebraic unknowns].
C27_DifferentialBeforeAlgebraic ==
    SlicesAssigned => DifferentialBeforeAlgebraic

\* no unknown is a key of rhs and of algebraic
NoSharedUnknown == UnknownIds(given.rhs) \cap UnknownIds(given.algebraic) = {}

\* C27 for the models in which no unknown is a key of both dictionaries;
\* the slices of the rhs unknowns then fill [0, n) and those of the
\* algebraic unknowns follow
C27_DifferentialBeforeAlgebraicWhenDisjoint ==
    SlicesAssigned /\ NoSharedUnknown
        => /\ DifferentialBeforeAlgebraic
           /\ \A a \in UnknownIds(given.algebraic) :
                 y_slices[a].start >= TotalLength(y_slices, UnknownIds(given.rhs))

\* slices have been assigned to a model with differential and algebraic
\* unknowns
C27_Witness ==
    /\ SlicesAssigned /\ NoSharedUnknown
    /\ UnknownIds(given.rhs) # {} /\ UnknownIds(given.algebraic) # {}
    /\ \E r \in UnknownIds(given.rhs) : y_slices[r].stop - y_slices[r].start > 1

\* an unknown that is a key of both dictionaries has one slice
C27_SharedWitness == SlicesAssigned /\ ~NoSharedUnknown

\* calculate_consistent_initial_conditions returns the guess up to the
\* length of the rhs and the root after it
C27_SolverKeepsDifferentialPart ==
    \A k \in DOMAIN evaluated :
        evaluated[k].call = "calculate_consistent_initial_conditions" /\ evaluated[k].err = ""
            => LET len_rhs == Len(evaluated[k - 2].v)
               IN /\ Len(evaluated[k].v) = Len(evaluated[k].y)
                  /\ \A i \in 1..Min(len_rhs, Len(evaluated[k].y)) :
                        evaluated[k].v[i] = evaluated[k].y[i]

\* consistent initial conditions have been computed that differ from the
\* guess
C27_SolverWitness ==
    \E k \in DOMAIN evaluated :
        /\ evaluated[k].call = "calculate_consistent_initial_conditions"
        /\ evaluated[k].err = "" /\ evaluated[k].v # evaluated[k].y

(***************************************************************************)
(* Properties of repeated calls                                            *)
(***************************************************************************)
\* process_boundary_conditions of the current call has returned or raised
BoundaryConditionsAttempted == Done("set_variable_slices") /\ pc # "bcs"

\* process_boundary_conditions of the current call has raised
BoundaryConditionsRaised == pc = "failed" /\ log = <<"set_variable_slices">>

\* what process_boundary_conditions gives for the model of the current call
\* on an engine that holds no boundary condition of an earlier call
OnEmptyTable ==
    process_boundary_conditions(heap, Ctx(spatial_methods, mesh, y_slices, EmptyDict), given)

\* the table holds, side by side, expressions identical to those of r
SameTable(r) ==
    /\ DOMAIN bcs = DOMAIN r.r
    /\ \A id \in DOMAIN bcs :
          /\ DOMAIN bcs[id] = DOMAIN r.r[id]
          /\ \A side \in DOMAIN bcs[id] :
                /\ bcs[id][side].typ = r.r[id][side].typ
                /\ Id(heap, bcs[id][side].eqn) = Id(r.h, r.r[id][side].eqn)

\* the slice map is the one of the keys of the model of the current call
SlicesOfThisCall ==
    Done("set_variable_slices")
        => y_slices = set_variable_slices(heap, spatial_methods, mesh,
                                          Keys(given.rhs) \o Keys(given.algebraic)).ys

\* the boundary conditions were lowered as on an engine without entries of
\* an earlier call
BoundaryConditionsOfThisCall ==
    BoundaryConditionsAttempted
        => IF BoundaryConditionsRaised THEN OnEmptyTable.err = err
           ELSE OnEmptyTable.err = "" /\ SameTable(OnEmptyTable)

\* C28: in any sequence of process_model calls on one engine, every rewrite
\* of a call, the lowering of its own boundary-condition expressions
\* included, consults only the slice map and the boundary-condition table
\* built from the model of that call: the slice map is replaced at the
\* start of the call and no entry left by an earlier call is read.
C28_CallsAreIndependent == SlicesOfThisCall /\ BoundaryConditionsOfThisCall

\* the slice map is replaced in every call, and the first call lowers its
\* boundary conditions with an empty table
C28_SlicesReplaced ==
    SlicesOfThisCall /\ (calls = 1 => BoundaryConditionsOfThisCall)

\* a later call has lowered its boundary conditions while the table held an
\* entry of an earlier call for the same variable
C28_StaleEntryWitness ==
    /\ calls = 2 /\ BoundaryConditionsAttempted
    /\ BoundaryConditionsRaised /\ OnEmptyTable.err = ""

\* a later call has replaced the slice map of a model with other keys
C28_ReplacedWitness ==
    /\ calls = 2 /\ Done("process_boundary_conditions")
    /\ Len(given.rhs) = 1
    /\ Cardinality(DOMAIN y_slices) = 1

(***************************************************************************)
(* Properties of a failed update                                           *)
(***************************************************************************)
\* the names of the dictionaries update checks, in the order of the checks
Checks == <<"rhs", "algebraic", "initial_conditions", "boundary_conditions">>

\* some key identity of the submodel's dictionary occurs in the model's
Clashes(name) ==
    \E i \in DOMAIN given[name], j \in DOMAIN models[2][name] :
        Id(heap, given[name][i].key) = Id(heap, models[2][name][j].key)

\* update has raised
UpdateRaised == Raised("update") /\ Len(log) \in {1, 2}

\* the first check that fails
FirstClash == CHOOSE k \in DOMAIN Checks :
                 /\ Clashes(Checks[k])
                 /\ \A j \in 1..(k - 1) : ~Clashes(Checks[j])

\* none of the model's dictionaries was changed by the call
NothingChanged == models[1] = given

\* C29: BaseModel.update(submodel) is all-or-nothing: if a key identity of
\* the submodel's rhs, algebraic, initial_conditions or boundary_conditions
\* occurs in the model's corresponding dictionary, update fails and none of
\* the model's dictionaries has been changed.
C29_UpdateAllOrNothing ==
    /\ (Returned("update") \/ UpdateRaised)
          => (UpdateRaised <=> \E k \in DOMAIN Checks : Clashes(Checks[k]))
    /\ UpdateRaised => NothingChanged

\* update fails exactly when some dictionary clashes, with the assert's
\* AssertionError; the dictionaries checked before the first clashing one
\* hold the submodel's entries after the model's, the clashing one, those
\* after it and variables are unchanged
C29_UpdateKeepsEarlierDictionaries ==
    /\ (Returned("update") \/ UpdateRaised)
          => (UpdateRaised <=> \E k \in DOMAIN Checks : Clashes(Checks[k]))
    /\ UpdateRaised =>
          /\ err = "AssertionError"
          /\ \A k \in DOMAIN Checks :
                models[1][Checks[k]] =
                    IF k < FirstClash THEN given[Checks[k]] \o models[2][Checks[k]]
                    ELSE given[Checks[k]]
          /\ models[1].variables = given.variables

\* update has failed on algebraic after it had added the submodel's rhs
C29_Witness ==
    /\ UpdateRaised
    /\ FirstClash = 2
    /\ models[2].rhs # <<>>
    /\ models[1].rhs # given.rhs

\* update has failed on the first dictionary and changed nothing
C29_RhsClashWitness == UpdateRaised /\ FirstClash = 1 /\ NothingChanged

(***************************************************************************)
(* Unary operators without a rule of their own                             *)
(***************************************************************************)
\* the kinds process_symbol rebuilds with "symbol.__class__(new_child)"
GenericUnaryKinds ==
    UnaryKinds \ ({"Gradient", "Divergence", "Function"} \cup IntegralKinds
                     \cup BroadcastKinds \cup BoundaryKinds)

\* entry i of the variables given is such a node over a key of the model
GenericUnaryOverKey(i) ==
    LET x == given.variables[i].eqn
    IN /\ heap[x].kind \in GenericUnaryKinds
       /\ heap[heap[x].children[1]].kind = "Variable"
       /\ Id(heap, heap[x].children[1]) \in DOMAIN y_slices

\* the variables of the model have been discretised or the attempt raised
VariablesAttempted ==
    \/ Done("variables")
    \/ pc = "failed" /\ log # <<>> /\ log[Len(log)] = "process_rhs_and_algebraic"

\* entry i of the discretised variables is a node of the kind and name
\* given, over the StateVector of the child's slice
RebuiltOverChild(i) ==
    LET x == given.variables[i].eqn
        new == models[model_disc].variables[i].eqn
        s == y_slices[Id(heap, heap[x].children[1])]
    IN /\ heap[new].kind = heap[x].kind
       /\ heap[new].name = heap[x].name
       /\ Len(heap[new].children) = 1
       /\ heap[heap[new].children[1]].kind = "StateVector"
       /\ heap[heap[new].children[1]].a = s.start
       /\ heap[heap[new].children[1]].b = s.stop

\* C30: process_symbol applied to a unary node that has no dedicated
\* rewrite rule (negate, absolute value, Index) returns a node of the same
\* kind over the discretised child with the same non-child attributes, for
\* every such kind.
C30_GenericUnaryRebuilt ==
    \A i \in DOMAIN given.variables :
        GenericUnaryOverKey(i) /\ VariablesAttempted
            => Done("variables") /\ RebuiltOverChild(i)

\* negate and absolute value are rebuilt over the discretised child
C30_NegateAndAbsoluteValueRebuilt ==
    \A i \in DOMAIN given.variables :
        /\ GenericUnaryOverKey(i) /\ VariablesAttempted
        /\ heap[given.variables[i].eqn].kind # "Index"
        => Done("variables") /\ RebuiltOverChild(i)

\* an Index is never rebuilt: the call raises TypeError
C30_IndexRaises ==
    \A i \in DOMAIN given.variables :
        /\ GenericUnaryOverKey(i) /\ VariablesAttempted
        /\ heap[given.variables[i].eqn].kind = "Index"
        => pc = "failed" /\ err = "TypeError"

\* an Index over a key has been handed to process_symbol
C30_IndexWitness ==
    \E i \in DOMAIN given.variables :
        /\ GenericUnaryOverKey(i) /\ VariablesAttempted
        /\ heap[given.variables[i].eqn].kind = "Index"

\* a negation and an absolute value over a key have been discretised
C30_NegateWitness ==
    \E i \in DOMAIN given.variables :
        /\ GenericUnaryOverKey(i) /\ Done("variables")
        /\ heap[given.variables[i].eqn].kind = "Negate"
C30_AbsoluteValueWitness ==
    \E i \in DOMAIN given.variables :
        /\ GenericUnaryOverKey(i) /\ Done("variables")
        /\ heap[given.variables[i].eqn].kind = "AbsoluteValue"

====
